---- MODULE Spec2Model ----
(***************************************************************************)
(* Coformer screening engine of Saltcocrystalpredictor.py.                 *)
(*                                                                         *)
(* The script reads the API inputs from the sidebar, scores every entry of *)
(* coformers_db in one loop and sorts the rows by Lead Score.              *)
(*                                                                         *)
(* Numbers are fixed-point integers, decimal arithmetic being exact:       *)
(*   pKa, delta_pka        hundredths        (pKa 4.76      -> 476)        *)
(*   HSP components        tenths            (dd 18.5       -> 185)        *)
(*   Ra squared            hundredths        (Ra^2 = 25.00  -> 2500)       *)
(*   probabilities, chi    thousandths       (p = 0.99      -> 990)        *)
(*   hygroscopic penalty   hundredths        (0.80          -> 80)         *)
(*   score components      thousandths of a point                          *)
(*   logP                  tenths                                          *)
(*   api_tg, Kelvin values hundredths of a degree (100.0 C -> 10000)       *)
(*   Tg_mix, Kauzmann T    tenths of a degree Celsius                      *)
(*   api_loading, weights  percent             (0.30         -> 30)        *)
(* An optional value (None in the source) is the empty tuple, a present    *)
(* value v is <<v>>.  The source computes in binary floating point; the    *)
(* rounding error of a float operation is not modelled, so a comparison    *)
(* whose operands are equal in decimal is decided as in decimal.           *)
(***************************************************************************)
EXTENDS Integers, Sequences, FiniteSets, TLC

VARIABLES api_pka, api_type, api_synthon, api_hsp, api_logP, api_tg, api_loading,
          catalog, etter_table, idx, results, df_full, pc, call

vars == <<api_pka, api_type, api_synthon, api_hsp, api_logP, api_tg, api_loading,
          catalog, etter_table, idx, results, df_full, pc, call>>

apiVars == <<api_pka, api_type, api_synthon, api_hsp, api_logP, api_tg, api_loading>>

(* the module-level objects coformers_db and etter_scores as they are in  *)
(* memory while the script runs                                           *)
refVars == <<catalog, etter_table>>

runVars == <<idx, results, df_full, pc>>

None == <<>>

Some(v) == <<v>>

Abs(x) == IF x < 0 THEN -x ELSE x

Min(a, b) == IF a < b THEN a ELSE b

(***************************************************************************)
(* Reference data                                                          *)
(***************************************************************************)
(* "Inorganic Anions" *)
salt_anions ==
  <<
    [name |-> "Hydrochloride (Cl-)", pKa |-> -700, dd |-> 165, dp |-> 130, dh |-> 100,
     type |-> "Salt (Anion)", synthon |-> "Inorganic Ion",
     mp_celsius |-> None, aq_sol_mg_ml |-> None, hygro_risk |-> "High",
     ich_flag |-> FALSE, tg_polymer |-> None],
    [name |-> "Sulfate (SO42-)", pKa |-> -300, dd |-> 160, dp |-> 160, dh |-> 150,
     type |-> "Salt (Anion)", synthon |-> "Inorganic Ion",
     mp_celsius |-> None, aq_sol_mg_ml |-> None, hygro_risk |-> "Medium",
     ich_flag |-> FALSE, tg_polymer |-> None],
    [name |-> "Hydrobromide (Br-)", pKa |-> -900, dd |-> 165, dp |-> 120, dh |-> 90,
     type |-> "Salt (Anion)", synthon |-> "Inorganic Ion",
     mp_celsius |-> None, aq_sol_mg_ml |-> None, hygro_risk |-> "Medium",
     ich_flag |-> FALSE, tg_polymer |-> None],
    [name |-> "Phosphate (H2PO4-)", pKa |-> 210, dd |-> 170, dp |-> 150, dh |-> 180,
     type |-> "Salt (Anion)", synthon |-> "Inorganic Ion",
     mp_celsius |-> None, aq_sol_mg_ml |-> None, hygro_risk |-> "Medium",
     ich_flag |-> FALSE, tg_polymer |-> None],
    [name |-> "Tartrate (L-tartaric)", pKa |-> 290, dd |-> 172, dp |-> 125, dh |-> 210,
     type |-> "Salt (Anion)", synthon |-> "Carboxylic Acid",
     mp_celsius |-> Some(171), aq_sol_mg_ml |-> Some(13900), hygro_risk |-> "Low",
     ich_flag |-> FALSE, tg_polymer |-> None],
    [name |-> "Mesylate (CH3SO3-)", pKa |-> -120, dd |-> 160, dp |-> 150, dh |-> 120,
     type |-> "Salt (Anion)", synthon |-> "Sulfonate",
     mp_celsius |-> Some(20), aq_sol_mg_ml |-> None, hygro_risk |-> "Low",
     ich_flag |-> TRUE, tg_polymer |-> None],
    [name |-> "Esylate (C2H5SO3-)", pKa |-> -180, dd |-> 160, dp |-> 140, dh |-> 115,
     type |-> "Salt (Anion)", synthon |-> "Sulfonate",
     mp_celsius |-> None, aq_sol_mg_ml |-> None, hygro_risk |-> "Low",
     ich_flag |-> TRUE, tg_polymer |-> None],
    [name |-> "Tosylate (C7H7SO3-)", pKa |-> -130, dd |-> 180, dp |-> 145, dh |-> 110,
     type |-> "Salt (Anion)", synthon |-> "Sulfonate",
     mp_celsius |-> Some(106), aq_sol_mg_ml |-> Some(6700), hygro_risk |-> "Low",
     ich_flag |-> TRUE, tg_polymer |-> None],
    [name |-> "Acetate (CH3COO-)", pKa |-> 476, dd |-> 162, dp |-> 110, dh |-> 130,
     type |-> "Salt (Anion)", synthon |-> "Carboxylic Acid",
     mp_celsius |-> Some(17), aq_sol_mg_ml |-> None, hygro_risk |-> "Medium",
     ich_flag |-> FALSE, tg_polymer |-> None],
    [name |-> "Maleate", pKa |-> 190, dd |-> 175, dp |-> 115, dh |-> 202,
     type |-> "Salt (Anion)", synthon |-> "Carboxylic Acid",
     mp_celsius |-> Some(131), aq_sol_mg_ml |-> Some(7880), hygro_risk |-> "Low",
     ich_flag |-> FALSE, tg_polymer |-> None],
    [name |-> "Fumarate", pKa |-> 300, dd |-> 175, dp |-> 120, dh |-> 190,
     type |-> "Salt (Anion)", synthon |-> "Carboxylic Acid",
     mp_celsius |-> Some(287), aq_sol_mg_ml |-> Some(49), hygro_risk |-> "Low",
     ich_flag |-> FALSE, tg_polymer |-> None],
    [name |-> "Citrate", pKa |-> 310, dd |-> 175, dp |-> 125, dh |-> 220,
     type |-> "Salt (Anion)", synthon |-> "Carboxylic Acid",
     mp_celsius |-> Some(153), aq_sol_mg_ml |-> Some(5920), hygro_risk |-> "Medium",
     ich_flag |-> FALSE, tg_polymer |-> None],
    [name |-> "Oxalate", pKa |-> 120, dd |-> 175, dp |-> 128, dh |-> 225,
     type |-> "Salt (Anion)", synthon |-> "Carboxylic Acid",
     mp_celsius |-> Some(190), aq_sol_mg_ml |-> Some(1430), hygro_risk |-> "Low",
     ich_flag |-> FALSE, tg_polymer |-> None],
    [name |-> "Succinate", pKa |-> 420, dd |-> 170, dp |-> 122, dh |-> 185,
     type |-> "Salt (Anion)", synthon |-> "Carboxylic Acid",
     mp_celsius |-> Some(185), aq_sol_mg_ml |-> Some(580), hygro_risk |-> "Low",
     ich_flag |-> FALSE, tg_polymer |-> None],
    [name |-> "Besylate (C6H5SO3-)", pKa |-> -100, dd |-> 185, dp |-> 140, dh |-> 110,
     type |-> "Salt (Anion)", synthon |-> "Sulfonate",
     mp_celsius |-> None, aq_sol_mg_ml |-> None, hygro_risk |-> "Low",
     ich_flag |-> FALSE, tg_polymer |-> None]
  >>

(* "Inorganic Cations" *)
salt_cations ==
  <<
    [name |-> "Sodium (Na+)", pKa |-> 1400, dd |-> 155, dp |-> 100, dh |-> 50,
     type |-> "Salt (Cation)", synthon |-> "Inorganic Ion",
     mp_celsius |-> None, aq_sol_mg_ml |-> None, hygro_risk |-> "Medium",
     ich_flag |-> FALSE, tg_polymer |-> None],
    [name |-> "Potassium (K+)", pKa |-> 1400, dd |-> 150, dp |-> 90, dh |-> 40,
     type |-> "Salt (Cation)", synthon |-> "Inorganic Ion",
     mp_celsius |-> None, aq_sol_mg_ml |-> None, hygro_risk |-> "Low",
     ich_flag |-> FALSE, tg_polymer |-> None],
    [name |-> "Calcium (Ca2+)", pKa |-> 1200, dd |-> 160, dp |-> 80, dh |-> 60,
     type |-> "Salt (Cation)", synthon |-> "Inorganic Ion",
     mp_celsius |-> None, aq_sol_mg_ml |-> None, hygro_risk |-> "Low",
     ich_flag |-> FALSE, tg_polymer |-> None],
    [name |-> "Magnesium (Mg2+)", pKa |-> 1150, dd |-> 160, dp |-> 80, dh |-> 60,
     type |-> "Salt (Cation)", synthon |-> "Inorganic Ion",
     mp_celsius |-> None, aq_sol_mg_ml |-> None, hygro_risk |-> "Low",
     ich_flag |-> FALSE, tg_polymer |-> None],
    [name |-> "Meglumine", pKa |-> 950, dd |-> 175, dp |-> 140, dh |-> 250,
     type |-> "Salt (Cation)", synthon |-> "Amine",
     mp_celsius |-> Some(129), aq_sol_mg_ml |-> None, hygro_risk |-> "Low",
     ich_flag |-> FALSE, tg_polymer |-> None],
    [name |-> "Tromethamine (TRIS)", pKa |-> 810, dd |-> 165, dp |-> 120, dh |-> 220,
     type |-> "Salt (Cation)", synthon |-> "Amine",
     mp_celsius |-> Some(172), aq_sol_mg_ml |-> Some(8000), hygro_risk |-> "Low",
     ich_flag |-> FALSE, tg_polymer |-> None],
    [name |-> "L-Lysine", pKa |-> 950, dd |-> 170, dp |-> 130, dh |-> 200,
     type |-> "Salt (Cation)", synthon |-> "Amine",
     mp_celsius |-> Some(224), aq_sol_mg_ml |-> None, hygro_risk |-> "Low",
     ich_flag |-> FALSE, tg_polymer |-> None],
    [name |-> "L-Arginine", pKa |-> 1080, dd |-> 175, dp |-> 135, dh |-> 210,
     type |-> "Salt (Cation)", synthon |-> "Amine",
     mp_celsius |-> Some(244), aq_sol_mg_ml |-> Some(1500), hygro_risk |-> "Low",
     ich_flag |-> FALSE, tg_polymer |-> None]
  >>

(* "Cocrystal Coformers" *)
cocrystal_coformers ==
  <<
    [name |-> "Nicotinamide", pKa |-> 330, dd |-> 190, dp |-> 120, dh |-> 110,
     type |-> "Coformer", synthon |-> "Pyridine/Amide",
     mp_celsius |-> Some(129), aq_sol_mg_ml |-> Some(10000), hygro_risk |-> "Low",
     ich_flag |-> FALSE, tg_polymer |-> None],
    [name |-> "Saccharin", pKa |-> 200, dd |-> 210, dp |-> 139, dh |-> 115,
     type |-> "Coformer", synthon |-> "Imide",
     mp_celsius |-> Some(229), aq_sol_mg_ml |-> Some(40), hygro_risk |-> "Low",
     ich_flag |-> FALSE, tg_polymer |-> None],
    [name |-> "Urea", pKa |-> 10, dd |-> 170, dp |-> 130, dh |-> 150,
     type |-> "Coformer", synthon |-> "Amide",
     mp_celsius |-> Some(133), aq_sol_mg_ml |-> Some(10800), hygro_risk |-> "High",
     ich_flag |-> FALSE, tg_polymer |-> None],
    [name |-> "Glutaric Acid", pKa |-> 430, dd |-> 170, dp |-> 120, dh |-> 190,
     type |-> "Coformer", synthon |-> "Carboxylic Acid",
     mp_celsius |-> Some(97), aq_sol_mg_ml |-> Some(6400), hygro_risk |-> "Low",
     ich_flag |-> FALSE, tg_polymer |-> None],
    [name |-> "Malonic Acid", pKa |-> 280, dd |-> 172, dp |-> 125, dh |-> 200,
     type |-> "Coformer", synthon |-> "Carboxylic Acid",
     mp_celsius |-> Some(135), aq_sol_mg_ml |-> Some(7630), hygro_risk |-> "Low",
     ich_flag |-> FALSE, tg_polymer |-> None],
    [name |-> "Caffeine", pKa |-> -10, dd |-> 185, dp |-> 125, dh |-> 108,
     type |-> "Coformer", synthon |-> "Amide",
     mp_celsius |-> Some(236), aq_sol_mg_ml |-> Some(216), hygro_risk |-> "Low",
     ich_flag |-> FALSE, tg_polymer |-> None],
    [name |-> "Theophylline", pKa |-> 880, dd |-> 190, dp |-> 120, dh |-> 110,
     type |-> "Coformer", synthon |-> "Amide",
     mp_celsius |-> Some(270), aq_sol_mg_ml |-> Some(83), hygro_risk |-> "Low",
     ich_flag |-> FALSE, tg_polymer |-> None]
  >>

(* "ASD Polymers" *)
asd_polymers ==
  <<
    [name |-> "PVP-K30", pKa |-> 1300, dd |-> 174, dp |-> 108, dh |-> 95,
     type |-> "Polymer (ASD)", synthon |-> "Amide",
     mp_celsius |-> None, aq_sol_mg_ml |-> None, hygro_risk |-> "High",
     ich_flag |-> FALSE, tg_polymer |-> Some(443)],
    [name |-> "HPMCAS-LF", pKa |-> 500, dd |-> 165, dp |-> 85, dh |-> 145,
     type |-> "Polymer (ASD)", synthon |-> "Carboxylic Acid",
     mp_celsius |-> None, aq_sol_mg_ml |-> None, hygro_risk |-> "Low",
     ich_flag |-> FALSE, tg_polymer |-> Some(393)],
    [name |-> "PVPVA 64", pKa |-> 1300, dd |-> 168, dp |-> 102, dh |-> 80,
     type |-> "Polymer (ASD)", synthon |-> "Amide",
     mp_celsius |-> None, aq_sol_mg_ml |-> None, hygro_risk |-> "Medium",
     ich_flag |-> FALSE, tg_polymer |-> Some(379)],
    [name |-> "Eudragit L100", pKa |-> 480, dd |-> 162, dp |-> 95, dh |-> 160,
     type |-> "Polymer (ASD)", synthon |-> "Carboxylic Acid",
     mp_celsius |-> None, aq_sol_mg_ml |-> None, hygro_risk |-> "Low",
     ich_flag |-> FALSE, tg_polymer |-> Some(433)]
  >>

(* variant: the PVP-K30 record is entered a second time *)
coformers_db_twice ==
  salt_anions \o salt_cations \o cocrystal_coformers \o asd_polymers \o <<asd_polymers[1]>>

coformers_db == salt_anions \o salt_cations \o cocrystal_coformers \o asd_polymers

etter_scores ==
  (  <<"Carboxylic Acid", "Pyridine/Amide">> :> 2
  @@ <<"Carboxylic Acid", "Amine">> :> 2
  @@ <<"Carboxylic Acid", "Amide">> :> 1
  @@ <<"Carboxylic Acid", "Carboxylic Acid">> :> 1
  @@ <<"Carboxylic Acid", "Inorganic Ion">> :> 1
  @@ <<"Carboxylic Acid", "Imide">> :> 1
  @@ <<"Amine", "Carboxylic Acid">> :> 2
  @@ <<"Amine", "Sulfonate">> :> 2
  @@ <<"Amine", "Inorganic Ion">> :> 2
  @@ <<"Amine", "Amide">> :> 1
  @@ <<"Amine", "Imide">> :> 1
  @@ <<"Pyridine", "Carboxylic Acid">> :> 2
  @@ <<"Pyridine", "Phenol">> :> 2
  @@ <<"Pyridine", "Imide">> :> 2
  @@ <<"Pyridine", "Amide">> :> 1
  @@ <<"Amide", "Carboxylic Acid">> :> 2
  @@ <<"Amide", "Pyridine/Amide">> :> 2
  @@ <<"Amide", "Amide">> :> 1
  @@ <<"Amide", "Inorganic Ion">> :> 1
  @@ <<"Phenol", "Pyridine/Amide">> :> 2
  @@ <<"Phenol", "Amine">> :> 2
  @@ <<"Phenol", "Amide">> :> 1
  @@ <<"Sulfonate", "Amine">> :> 2
  @@ <<"Sulfonate", "Inorganic Ion">> :> 1
  @@ <<"Hydroxyl", "Carboxylic Acid">> :> 2
  @@ <<"Hydroxyl", "Amide">> :> 1
  @@ <<"Hydroxyl", "Pyridine/Amide">> :> 1 )

N_CANDIDATES == Len(coformers_db)

IsPolymer(cf_type) == cf_type = "Polymer (ASD)"

R_GAS == 8314

V_REF == 100

T_REF == 29815

(* R_GAS * T in units of 10^-4 J/mol: 8.314 * 298.15 = 2478.8191 *)
RT4 == (R_GAS * T_REF) \div 10

(* variant: a default of 1 for a pair the dict does not hold *)
etter_score_default_one(api_s, cf_s) ==
  IF <<api_s, cf_s>> \in DOMAIN etter_table THEN etter_table[<<api_s, cf_s>>] ELSE 1

(* etter_scores.get((api_s, cf_s), 0), read from the dict in memory *)
etter_score(api_s, cf_s) ==
  IF <<api_s, cf_s>> \in DOMAIN etter_table THEN etter_table[<<api_s, cf_s>>] ELSE 0

(* variant: setdefault in place of get stores the default under the key *)
EtterAfterGet_setdefault(table, api_s, cf_s) ==
  IF <<api_s, cf_s>> \in DOMAIN table THEN table ELSE table @@ (<<api_s, cf_s>> :> 0)

(* the dict after the lookup: dict.get returns the default, stores nothing *)
EtterAfterGet(table, api_s, cf_s) == table

(***************************************************************************)
(* exp() is tabulated.  SigmoidTable[d + 101] is                           *)
(* round(1/(1+exp(-1.8*(d/100 - 2.0))), 3) in thousandths for d/100 in     *)
(* [-1.00, 6.00]; DecayTable[d + 190] is                                   *)
(* round(max(0.02, 0.05*exp(d/100 + 1)), 3) for d/100 in [-1.89, -1.01],   *)
(* below which the max() leaves 0.02.                                      *)
(***************************************************************************)
SigmoidTable ==
  << 4, 5, 5, 5, 5, 5, 5, 5, 5, 5, 5, 5, 6, 6, 6, 6, 6, 6, 6, 6,
     6, 7, 7, 7, 7, 7, 7, 7, 7, 8, 8, 8, 8, 8, 8, 8, 9, 9, 9, 9,
     9, 9, 10, 10, 10, 10, 10, 10, 11, 11, 11, 11, 11, 12, 12, 12, 12, 12, 13, 13,
     13, 13, 14, 14, 14, 14, 15, 15, 15, 15, 16, 16, 16, 17, 17, 17, 17, 18, 18, 18,
     19, 19, 19, 20, 20, 20, 21, 21, 22, 22, 22, 23, 23, 24, 24, 24, 25, 25, 26, 26,
     27, 27, 28, 28, 29, 29, 30, 30, 31, 31, 32, 32, 33, 33, 34, 35, 35, 36, 36, 37,
     38, 38, 39, 40, 40, 41, 42, 43, 43, 44, 45, 46, 46, 47, 48, 49, 50, 50, 51, 52,
     53, 54, 55, 56, 57, 58, 59, 60, 61, 62, 63, 64, 65, 66, 67, 68, 70, 71, 72, 73,
     74, 76, 77, 78, 80, 81, 82, 84, 85, 86, 88, 89, 91, 92, 94, 95, 97, 99, 100, 102,
     103, 105, 107, 109, 110, 112, 114, 116, 118, 119, 121, 123, 125, 127, 129, 131, 133, 135, 138, 140,
     142, 144, 146, 149, 151, 153, 156, 158, 160, 163, 165, 168, 170, 173, 175, 178, 181, 183, 186, 189,
     192, 194, 197, 200, 203, 206, 209, 212, 215, 218, 221, 224, 227, 230, 234, 237, 240, 243, 247, 250,
     254, 257, 260, 264, 267, 271, 274, 278, 282, 285, 289, 293, 297, 300, 304, 308, 312, 316, 320, 323,
     327, 331, 335, 339, 343, 348, 352, 356, 360, 364, 368, 372, 377, 381, 385, 389, 394, 398, 402, 407,
     411, 415, 420, 424, 428, 433, 437, 442, 446, 451, 455, 460, 464, 469, 473, 478, 482, 487, 491, 496,
     500, 504, 509, 513, 518, 522, 527, 531, 536, 540, 545, 549, 554, 558, 563, 567, 572, 576, 580, 585,
     589, 593, 598, 602, 606, 611, 615, 619, 623, 628, 632, 636, 640, 644, 648, 652, 657, 661, 665, 669,
     673, 677, 680, 684, 688, 692, 696, 700, 703, 707, 711, 715, 718, 722, 726, 729, 733, 736, 740, 743,
     746, 750, 753, 757, 760, 763, 766, 770, 773, 776, 779, 782, 785, 788, 791, 794, 797, 800, 803, 806,
     808, 811, 814, 817, 819, 822, 825, 827, 830, 832, 835, 837, 840, 842, 844, 847, 849, 851, 854, 856,
     858, 860, 862, 865, 867, 869, 871, 873, 875, 877, 879, 881, 882, 884, 886, 888, 890, 891, 893, 895,
     897, 898, 900, 901, 903, 905, 906, 908, 909, 911, 912, 914, 915, 916, 918, 919, 920, 922, 923, 924,
     926, 927, 928, 929, 930, 932, 933, 934, 935, 936, 937, 938, 939, 940, 941, 942, 943, 944, 945, 946,
     947, 948, 949, 950, 950, 951, 952, 953, 954, 954, 955, 956, 957, 957, 958, 959, 960, 960, 961, 962,
     962, 963, 964, 964, 965, 965, 966, 967, 967, 968, 968, 969, 969, 970, 970, 971, 971, 972, 972, 973,
     973, 974, 974, 975, 975, 976, 976, 976, 977, 977, 978, 978, 978, 979, 979, 980, 980, 980, 981, 981,
     981, 982, 982, 982, 983, 983, 983, 983, 984, 984, 984, 985, 985, 985, 985, 986, 986, 986, 986, 987,
     987, 987, 987, 988, 988, 988, 988, 988, 989, 989, 989, 989, 989, 990, 990, 990, 990, 990, 990, 991,
     991, 991, 991, 991, 991, 992, 992, 992, 992, 992, 992, 992, 993, 993, 993, 993, 993, 993, 993, 993,
     994, 994, 994, 994, 994, 994, 994, 994, 994, 995, 995, 995, 995, 995, 995, 995, 995, 995, 995, 995,
     996, 996, 996, 996, 996, 996, 996, 996, 996, 996, 996, 996, 996, 996, 997, 997, 997, 997, 997, 997,
     997, 997, 997, 997, 997, 997, 997, 997, 997, 997, 997, 997, 997, 998, 998, 998, 998, 998, 998, 998,
     998, 998, 998, 998, 998, 998, 998, 998, 998, 998, 998, 998, 998, 998, 998, 998, 998, 998, 998, 998,
     998, 998, 999, 999, 999, 999, 999, 999, 999, 999, 999, 999, 999, 999, 999, 999, 999, 999, 999, 999,
     999, 999, 999, 999, 999, 999, 999, 999, 999, 999, 999, 999, 999, 999, 999, 999, 999, 999, 999, 999,
     999 >>

DecayTable ==
  << 21, 21, 21, 21, 21, 22, 22, 22, 22, 22, 23, 23, 23, 23, 24, 24, 24, 24, 25, 25,
     25, 25, 26, 26, 26, 26, 27, 27, 27, 27, 28, 28, 28, 29, 29, 29, 29, 30, 30, 30,
     31, 31, 31, 32, 32, 32, 33, 33, 33, 34, 34, 34, 35, 35, 35, 36, 36, 36, 37, 37,
     37, 38, 38, 39, 39, 39, 40, 40, 41, 41, 41, 42, 42, 43, 43, 43, 44, 44, 45, 45,
     46, 46, 47, 47, 48, 48, 49, 49, 50 >>

cruz_cabeza_decay(delta_pka) ==
  IF delta_pka < -189 THEN 20 ELSE DecayTable[delta_pka + 190]

cruz_cabeza_sigmoid(delta_pka) == SigmoidTable[delta_pka + 101]

(* variant: saturation from the salt-zone boundary of the docstring (4) *)
cruz_cabeza_pka_probability_sat4(delta_pka) ==
  IF delta_pka < -100 THEN cruz_cabeza_decay(delta_pka)
  ELSE IF delta_pka > 400 THEN 990
  ELSE cruz_cabeza_sigmoid(delta_pka)

cruz_cabeza_pka_probability(delta_pka) ==
  IF delta_pka < -100 THEN cruz_cabeza_decay(delta_pka)
  ELSE IF delta_pka > 600 THEN 990
  ELSE cruz_cabeza_sigmoid(delta_pka)

(* variant: the two branches exchanged *)
DeltaPka_swapped(pka, type, cf_pka) == IF type = "Base" THEN cf_pka - pka ELSE pka - cf_pka

(* delta_pka of the screening loop *)
DeltaPka(pka, type, cf_pka) == IF type = "Base" THEN pka - cf_pka ELSE cf_pka - pka

(* variant: the hydrogen-bonding term not squared *)
RaSq_dh_unsquared(a_hsp, c_hsp) ==
  4 * (a_hsp[1] - c_hsp[1]) * (a_hsp[1] - c_hsp[1])
    + (a_hsp[2] - c_hsp[2]) * (a_hsp[2] - c_hsp[2])
    + (a_hsp[3] - c_hsp[3])

(* Ra^2 = 4*(ddd)^2 + (ddp)^2 + (ddh)^2, the radicand of ra *)
RaSq(a_hsp, c_hsp) ==
  4 * (a_hsp[1] - c_hsp[1]) * (a_hsp[1] - c_hsp[1])
    + (a_hsp[2] - c_hsp[2]) * (a_hsp[2] - c_hsp[2])
    + (a_hsp[3] - c_hsp[3]) * (a_hsp[3] - c_hsp[3])

ChiResidual(n, k) == (n - (RT4 \div 10000) * k) * 10000 - (RT4 % 10000) * k

(* round(V_REF / (R_GAS*T) * delta_sq, 3), in thousandths *)
flory_huggins_chi(a_hsp, c_hsp) ==
  LET delta_sq == (a_hsp[1] - c_hsp[1]) * (a_hsp[1] - c_hsp[1])
                + (a_hsp[2] - c_hsp[2]) * (a_hsp[2] - c_hsp[2])
                + (a_hsp[3] - c_hsp[3]) * (a_hsp[3] - c_hsp[3])
      n  == 10 * V_REF * delta_sq
      k0 == n \div ((RT4 \div 10000) + 1)
  IN  CHOOSE k \in k0 .. (k0 + 2) : 2 * Abs(ChiResidual(n, k)) < RT4

(* variant: continuum zone opened at -2 instead of -1 *)
InteractionType_low2(delta_pka, e_score) ==
  IF delta_pka > 400 THEN "Salt"
  ELSE IF -200 <= delta_pka /\ delta_pka <= 400 THEN "Salt / Cocrystal Continuum"
  ELSE IF e_score > 0 THEN "Cocrystal"
  ELSE "Unlikely"

(* variant: the synthon test ahead of the continuum test *)
InteractionType_synthon_first(delta_pka, e_score) ==
  IF delta_pka > 400 THEN "Salt"
  ELSE IF e_score > 0 THEN "Cocrystal"
  ELSE IF -100 <= delta_pka /\ delta_pka <= 400 THEN "Salt / Cocrystal Continuum"
  ELSE "Unlikely"

InteractionType(delta_pka, e_score) ==
  IF delta_pka > 400 THEN "Salt"
  ELSE IF -100 <= delta_pka /\ delta_pka <= 400 THEN "Salt / Cocrystal Continuum"
  ELSE IF e_score > 0 THEN "Cocrystal"
  ELSE "Unlikely"

MiscLabel(cf_type, chi, ra_sq) ==
  IF IsPolymer(cf_type)
  THEN IF chi # None
       THEN IF chi[1] # 0 /\ chi[1] < 500 THEN "Miscible (chi<0.5)"
            ELSE IF chi[1] # 0 /\ chi[1] < 1000 THEN "Borderline (0.5-1)"
            ELSE "Immiscible (chi>1)"
       ELSE "N/A"
  ELSE IF ra_sq < 4900 THEN "High" ELSE "Low"

(* variant: the cut-points taken inclusively *)
gastric_survival_inclusive(pka, type, cf_pka) ==
  IF type = "Base"
  THEN LET d == pka - cf_pka
       IN  IF d >= 500 THEN "Stable" ELSE IF d >= 200 THEN "Marginal" ELSE "Risk"
  ELSE LET d == cf_pka - pka
       IN  IF d >= 400 THEN "Stable" ELSE IF d >= 150 THEN "Marginal" ELSE "Risk"

gastric_survival(pka, type, cf_pka) ==
  IF type = "Base"
  THEN LET d == pka - cf_pka
       IN  IF d > 500 THEN "Stable" ELSE IF d > 200 THEN "Marginal" ELSE "Risk"
  ELSE LET d == cf_pka - pka
       IN  IF d > 400 THEN "Stable" ELSE IF d > 150 THEN "Marginal" ELSE "Risk"

hygro_base == ("High" :> 80) @@ ("Medium" :> 40) @@ ("Low" :> 5)

(* variant: the penalty taken as a percentage instead of a fraction *)
hygro_penalty_percent(hygro_risk, pka, type) ==
  IF hygro_risk = "High" /\ type = "Base" /\ pka > 800
  THEN 100 * Min(hygro_base[hygro_risk] + 15, 100)
  ELSE 100 * hygro_base[hygro_risk]

hygro_penalty(hygro_risk, pka, type) ==
  IF hygro_risk = "High" /\ type = "Base" /\ pka > 800
  THEN Min(hygro_base[hygro_risk] + 15, 100)
  ELSE hygro_base[hygro_risk]

(* variant: the synthon term added instead of subtracted *)
supersaturation_risk_index_synthon_adds(delta_pka, inter_type, etter_val, logP) ==
  IF inter_type = "Salt / Cocrystal Continuum"
  THEN LET b0 == IF delta_pka < 100 THEN 3 ELSE IF delta_pka < 200 THEN 2 ELSE 1
           b1 == b0 + Min(etter_val, 1)
           b2 == IF logP # 0 /\ logP > 30 THEN b1 + 1 ELSE b1
       IN  IF b2 >= 3 THEN "High" ELSE IF b2 >= 2 THEN "Medium" ELSE "Low"
  ELSE IF inter_type = "Unlikely" THEN "High" ELSE "N/A"

(* variant: the Unlikely class falls through to the last branch *)
supersaturation_risk_index_unlikely_na(delta_pka, inter_type, etter_val, logP) ==
  IF inter_type = "Salt / Cocrystal Continuum"
  THEN LET b0 == IF delta_pka < 100 THEN 3 ELSE IF delta_pka < 200 THEN 2 ELSE 1
           b1 == b0 - Min(etter_val, 1)
           b2 == IF logP # 0 /\ logP > 30 THEN b1 + 1 ELSE b1
       IN  IF b2 >= 3 THEN "High" ELSE IF b2 >= 2 THEN "Medium" ELSE "Low"
  ELSE "N/A"

supersaturation_risk_index(delta_pka, inter_type, etter_val, logP) ==
  IF inter_type = "Salt / Cocrystal Continuum"
  THEN LET b0 == IF delta_pka < 100 THEN 3 ELSE IF delta_pka < 200 THEN 2 ELSE 1
           b1 == b0 - Min(etter_val, 1)
           b2 == IF logP # 0 /\ logP > 30 THEN b1 + 1 ELSE b1
       IN  IF b2 >= 3 THEN "High" ELSE IF b2 >= 2 THEN "Medium" ELSE "Low"
  ELSE IF inter_type = "Unlikely" THEN "High"
  ELSE "N/A"

(* round(x / 10) of a value x given as m + r/d hundredths, 0 <= r < d *)
RoundTenth(m, r) ==
  LET q == m \div 10
      t == m % 10
  IN  IF t < 5 THEN q
      ELSE IF t > 5 \/ r > 0 THEN q + 1
      ELSE IF q % 2 = 0 THEN q ELSE q + 1

(***************************************************************************)
(* tg_mix_k = (w_api*tg_api_k + K*w_pol*tg_pol_k) / (w_api + K*w_pol) with *)
(* K = tg_api_k / tg_pol_k.  Multiplying through by tg_pol_k, with         *)
(* w_api + w_pol = 1, gives                                                *)
(*   tg_mix_k = tg_api_k + tg_api_k*w_pol*(tg_pol_k - tg_api_k) / den,     *)
(*   den = w_api*tg_pol_k + w_pol*tg_api_k.                                *)
(* MulDiv divides the product digit by digit of (tg_pol_k - tg_api_k) so   *)
(* that every intermediate value stays below 2^31.  den is the denominator *)
(* w_api + K*w_pol times 100*tg_pol_k; it is zero when                     *)
(* tg_api_k = -tg_pol_k*w_api/w_pol, and the float division then raises.   *)
(***************************************************************************)
ZeroDivisionError == <<0, 0>>

(* <<floor(u*v/den), (u*v) mod den>> for den > 0, by long division of v in *)
(* base 100                                                                *)
MulDiv(u, v, den) ==
  LET v0 == v % 100
      v1 == (v \div 100) % 100
      v2 == v \div 10000
      a2 == u * v2
      a1 == 100 * (a2 % den) + u * v1
      a0 == 100 * (a1 % den) + u * v0
  IN  <<10000 * (a2 \div den) + 100 * (a1 \div den) + (a0 \div den), a0 % den>>

(* variant: the two weight fractions exchanged in the mixing rule *)
gordon_taylor_tg_weights_swapped(tg_api_c, tg_pol_k, w_api) ==
  IF tg_api_c = None \/ tg_pol_k = None THEN None
  ELSE IF tg_pol_k[1] <= 0 THEN None
  ELSE LET tg_api_k == tg_api_c[1] + 27315
           pol_k    == 100 * tg_pol_k[1]
           w_pol    == 100 - w_api
       IN  IF w_pol <= 0 THEN Some(RoundTenth(tg_api_c[1], 0))
           ELSE LET d0  == w_pol * pol_k + w_api * tg_api_k
                    sgn == IF d0 < 0 THEN -1 ELSE 1
                    den == sgn * d0
                    u   == sgn * tg_api_k * w_api
                    qr  == MulDiv(u, pol_k - tg_api_k, den)
                IN  IF d0 = 0 THEN ZeroDivisionError
                    ELSE Some(RoundTenth(tg_api_c[1] + qr[1], qr[2]))

gordon_taylor_tg(tg_api_c, tg_pol_k, w_api) ==
  IF tg_api_c = None \/ tg_pol_k = None THEN None
  ELSE IF tg_pol_k[1] <= 0 THEN None
  ELSE LET tg_api_k == tg_api_c[1] + 27315
           pol_k    == 100 * tg_pol_k[1]
           w_pol    == 100 - w_api
       IN  IF w_pol <= 0 THEN Some(RoundTenth(tg_api_c[1], 0))
           ELSE LET d0  == w_api * pol_k + w_pol * tg_api_k
                    sgn == IF d0 < 0 THEN -1 ELSE 1
                    den == sgn * d0
                    u   == sgn * tg_api_k * w_pol
                    qr  == MulDiv(u, pol_k - tg_api_k, den)
                IN  IF d0 = 0 THEN ZeroDivisionError
                    ELSE Some(RoundTenth(tg_api_c[1] + qr[1], qr[2]))

V_GI == 250

(* dose in mg, solubility in thousandths of mg/mL, D0 in hundredths:       *)
(* 100*dose/((sol/1000)*V_GI) = n/d, rounded by way of its tenth digit     *)
dose_number(dose_mg, solubility_mg_ml) ==
  IF solubility_mg_ml = None THEN None
  ELSE IF solubility_mg_ml[1] <= 0 THEN None
  ELSE LET n == 100000 * dose_mg
           d == solubility_mg_ml[1] * V_GI
       IN  Some(RoundTenth(10 * (n \div d) + (10 * (n % d)) \div d, (10 * (n % d)) % d))

(* dose_number on a solubility in hundred-thousandths of mg/mL, the        *)
(* resolution of s0_mg_ml * ratio_fassif: 100*dose/((sol/100000)*V_GI)     *)
(* = (10^7/V_GI)*dose/sol hundredths, halves to even                       *)
dose_number_fine(dose_mg, solubility) ==
  IF solubility = None THEN None
  ELSE IF solubility[1] <= 0 THEN None
  ELSE LET n == (10000000 \div V_GI) * dose_mg
           d == solubility[1]
           q == n \div d
           r == n % d
       IN  Some(IF 2 * r < d THEN q
                ELSE IF 2 * r > d THEN q + 1
                ELSE IF q % 2 = 0 THEN q ELSE q + 1)

(* Python round() of a float to an int rounds halves to even *)
RoundHalfEven(milli) ==
  LET q == milli \div 1000
      r == milli % 1000
  IN  IF r < 500 THEN q
      ELSE IF r > 500 THEN q + 1
      ELSE IF q % 2 = 0 THEN q ELSE q + 1

PH_FASSIF == 650

(***************************************************************************)
(* 10 ** log_s0 is tabulated.  With logP in tenths and the melting point   *)
(* a multiple of 5 C, log_s0 = 0.5 - 0.01*(mp - 25) - logP is -n/20 for    *)
(* n = 2*logP + (mp - 25)/5 - 10; Pow10Table[n - 14] is                    *)
(* round(10 ** (-n/20), 6) in millionths of mol/L for n = 15 .. 126, and   *)
(* the rounded value is 0 for every larger n.                              *)
(***************************************************************************)
Pow10Table ==
  << 177828, 158489, 141254, 125893, 112202, 100000, 89125, 79433,
     70795, 63096, 56234, 50119, 44668, 39811, 35481, 31623, 28184,
     25119, 22387, 19953, 17783, 15849, 14125, 12589, 11220, 10000,
     8913, 7943, 7079, 6310, 5623, 5012, 4467, 3981, 3548, 3162, 2818,
     2512, 2239, 1995, 1778, 1585, 1413, 1259, 1122, 1000, 891, 794,
     708, 631, 562, 501, 447, 398, 355, 316, 282, 251, 224, 200, 178,
     158, 141, 126, 112, 100, 89, 79, 71, 63, 56, 50, 45, 40, 35, 32,
     28, 25, 22, 20, 18, 16, 14, 13, 11, 10, 9, 8, 7, 6, 6, 5, 4, 4,
     4, 3, 3, 3, 2, 2, 2, 2, 1, 1, 1, 1, 1, 1, 1, 1, 1, 1 >>

yalkowsky_gse(logP, mp_celsius) ==
  IF logP = None THEN None
  ELSE LET mp == IF mp_celsius # None THEN mp_celsius[1] ELSE 150
           n  == 2 * logP[1] + (mp - 25) \div 5 - 10
       IN  Some(IF n > 126 THEN 0 ELSE Pow10Table[n - 14])

(* HhRatioTable[k + 8] is round(max(1.0 + 10 ** (k/2), 1.0), 1) in tenths  *)
(* for k = -7 .. 7                                                         *)
HhRatioTable ==
  << 10, 10, 10, 10, 10, 11, 13, 20, 42, 110, 326, 1010, 3172, 10010, 31633 >>

(* the pair (ratio, abs_sol) with s0_mol_l and mw left out, as the dose    *)
(* number block calls it; pka and pH in hundredths, half a unit apart      *)
hh_solubility_at_pH(pka, mol_type, pH) ==
  LET e == IF mol_type = "Base" THEN pka - pH ELSE pH - pka
  IN  <<HhRatioTable[e \div 50 + 8], None>>

(***************************************************************************)
(* The core computation ahead of the loop: s0_mol_l in millionths of       *)
(* mol/L, s0_mg_ml in ten-thousandths of mg/mL (s0_mol_l * mw / 100,       *)
(* rounded), d0_fassif in hundredths, and the prefix of bcs_hint.          *)
(***************************************************************************)
BiopharmCore(logP, mp, mw, pka, type, dose_mg) ==
  LET s0_mol_l  == yalkowsky_gse(Some(logP), Some(mp))
      s0_mg_ml  == IF s0_mol_l # None /\ s0_mol_l[1] # 0 /\ mw # 0
                   THEN Some(RoundHalfEven(10 * s0_mol_l[1] * mw)) ELSE None
      d0_fassif == IF s0_mg_ml # None /\ s0_mg_ml[1] # 0
                   THEN dose_number_fine(dose_mg,
                          Some(s0_mg_ml[1] * hh_solubility_at_pH(pka, type, PH_FASSIF)[1]))
                   ELSE None
  IN  [s0_mol_l |-> s0_mol_l, s0_mg_ml |-> s0_mg_ml, d0_fassif |-> d0_fassif,
       bcs_hint |-> IF d0_fassif = None THEN "Unknown"
                    ELSE IF d0_fassif[1] <= 100 THEN "BCS I or III" ELSE "BCS II or IV",
       is_sol_limited |-> d0_fassif # None /\ d0_fassif[1] > 100]

kauzmann_temperature(tg_mix_c) ==
  IF tg_mix_c = None THEN None ELSE Some(tg_mix_c[1] - 500)

(* variant: the storage temperature left out of the difference *)
asd_stability_class_no_storage(tg_mix_c) ==
  IF tg_mix_c = None THEN "N/A"
  ELSE LET delta == tg_mix_c[1]
       IN  IF delta >= 500 THEN "Stable (Tg-Ts >= 50C)"
           ELSE IF delta >= 300 THEN "Borderline (30-50C)"
           ELSE "Unstable (< 30C)"

asd_stability_class(tg_mix_c) ==
  IF tg_mix_c = None THEN "N/A"
  ELSE LET delta == tg_mix_c[1] - 250
       IN  IF delta >= 500 THEN "Stable (Tg-Ts >= 50C)"
           ELSE IF delta >= 300 THEN "Borderline (30-50C)"
           ELSE "Unstable (< 30C)"

(* variant: a missing melting point is read as 0 *)
lattice_energy_proxy_inferred(mp_celsius) ==
  IF mp_celsius = None THEN "Low (mp<120C)"
  ELSE IF mp_celsius[1] > 250 THEN "Very High (mp>250C)"
  ELSE IF mp_celsius[1] > 180 THEN "High (mp 180-250C)"
  ELSE IF mp_celsius[1] > 120 THEN "Moderate (mp 120-180C)"
  ELSE "Low (mp<120C)"

lattice_energy_proxy(mp_celsius) ==
  IF mp_celsius = None THEN "Unknown"
  ELSE IF mp_celsius[1] > 250 THEN "Very High (mp>250C)"
  ELSE IF mp_celsius[1] > 180 THEN "High (mp 180-250C)"
  ELSE IF mp_celsius[1] > 120 THEN "Moderate (mp 120-180C)"
  ELSE "Low (mp<120C)"

(* variant: Medium risk scored as Low *)
sri_score_medium_full(sri_label) ==
  IF sri_label \in {"N/A", "Low", "Medium"} THEN 5000
  ELSE IF sri_label = "High" THEN 0
  ELSE 2500

sri_score(sri_label) ==
  IF sri_label \in {"N/A", "Low"} THEN 5000
  ELSE IF sri_label = "Medium" THEN 2500
  ELSE IF sri_label = "High" THEN 0
  ELSE 2500

(* variant: an immiscible polymer scores 0 as a small molecule in the      *)
(* worst band does                                                         *)
score_misc_polymer_zero(cf_type, chi, ra_sq) ==
  IF IsPolymer(cf_type)
  THEN IF chi # None
       THEN IF chi[1] < 500 THEN 20000 ELSE IF chi[1] < 1000 THEN 12000 ELSE 0
       ELSE 10000
  ELSE IF ra_sq < 2500 THEN 20000
       ELSE IF ra_sq < 4900 THEN 12000
       ELSE IF ra_sq < 10000 THEN 5000 ELSE 0

score_misc(cf_type, chi, ra_sq) ==
  IF IsPolymer(cf_type)
  THEN IF chi # None
       THEN IF chi[1] < 500 THEN 20000 ELSE IF chi[1] < 1000 THEN 12000 ELSE 2000
       ELSE 10000
  ELSE IF ra_sq < 2500 THEN 20000
       ELSE IF ra_sq < 4900 THEN 12000
       ELSE IF ra_sq < 10000 THEN 5000 ELSE 0

(* variant: the 10 points given to a flagged candidate instead *)
score_total_flag_rewarded(delta_pka, etter_val, ra_sq, chi, hygro_risk, ich_flag, pka, type, cf_type, sri_label) ==
  cruz_cabeza_pka_probability(delta_pka) * 30
    + etter_val * 10000
    + score_misc(cf_type, chi, ra_sq)
    + (100 - hygro_penalty(hygro_risk, pka, type)) * 150
    + (IF ich_flag THEN 10000 ELSE 0)
    + sri_score(sri_label)

(* the six components composite_lead_score adds up *)
score_components(delta_pka, etter_val, ra_sq, chi, hygro_risk, ich_flag, pka, type, cf_type, sri_label) ==
  [pka_s  |-> cruz_cabeza_pka_probability(delta_pka) * 30,
   syn_s  |-> etter_val * 10000,
   misc_s |-> score_misc(cf_type, chi, ra_sq),
   hyg_s  |-> (100 - hygro_penalty(hygro_risk, pka, type)) * 150,
   ich_s  |-> IF ich_flag THEN 0 ELSE 10000,
   sri_s  |-> sri_score(sri_label)]

(* total of the six components, in thousandths of a point *)
score_total(delta_pka, etter_val, ra_sq, chi, hygro_risk, ich_flag, pka, type, cf_type, sri_label) ==
  cruz_cabeza_pka_probability(delta_pka) * 30
    + etter_val * 10000
    + score_misc(cf_type, chi, ra_sq)
    + (100 - hygro_penalty(hygro_risk, pka, type)) * 150
    + (IF ich_flag THEN 0 ELSE 10000)
    + sri_score(sri_label)

composite_lead_score(delta_pka, etter_val, ra_sq, chi, hygro_risk, ich_flag, pka, type, cf_type, sri_label) ==
  RoundHalfEven(Min(score_total(delta_pka, etter_val, ra_sq, chi, hygro_risk,
                                ich_flag, pka, type, cf_type, sri_label),
                    100000))

(***************************************************************************)
(* One iteration of "for cf in coformers_db": the row of candidate cf.     *)
(***************************************************************************)
ScreenRow(cf, pka, type, synthon, hsp, logP, tg, loading) ==
  LET delta_pka  == DeltaPka(pka, type, cf.pKa)
      e_score    == etter_score(synthon, cf.synthon)
      cf_hsp     == <<cf.dd, cf.dp, cf.dh>>
      ra_sq      == RaSq(hsp, cf_hsp)
      chi        == IF IsPolymer(cf.type) THEN Some(flory_huggins_chi(hsp, cf_hsp))
                    ELSE None
      inter_type == InteractionType(delta_pka, e_score)
      sri        == supersaturation_risk_index(delta_pka, inter_type, e_score, logP)
      has_gt     == /\ IsPolymer(cf.type)
                    /\ cf.tg_polymer # None /\ cf.tg_polymer # Some(0)
                    /\ tg # None
      gt_tg_mix  == IF has_gt THEN gordon_taylor_tg(tg, cf.tg_polymer, loading) ELSE None
  IN  [Partner     |-> cf.name,
       delta_pka   |-> delta_pka,
       p_form      |-> cruz_cabeza_pka_probability(delta_pka),
       e_score     |-> e_score,
       ra_sq       |-> ra_sq,
       chi         |-> chi,
       misc_label  |-> MiscLabel(cf.type, chi, ra_sq),
       inter_type  |-> inter_type,
       gastric     |-> gastric_survival(pka, type, cf.pKa),
       sri         |-> sri,
       le_proxy    |-> lattice_energy_proxy(cf.mp_celsius),
       gt_tg_mix   |-> gt_tg_mix,
       gt_stability |-> IF has_gt THEN asd_stability_class(gt_tg_mix) ELSE "N/A",
       t_kauz      |-> IF has_gt THEN kauzmann_temperature(gt_tg_mix) ELSE None,
       lead_score  |-> composite_lead_score(delta_pka, e_score, ra_sq, chi,
                                            cf.hygro_risk, cf.ich_flag,
                                            pka, type, cf.type, sri)]

(* an exception escapes the loop body: hygro_penalty's dict lookup fails   *)
(* (KeyError), or the division of gordon_taylor_tg has a zero denominator  *)
(* (ZeroDivisionError)                                                     *)
(* variant: gt_tg_mix, gt_stability and t_kauz are not reset at the top of *)
(* the iteration, a row without Gordon-Taylor data keeps the previous ones *)
LoopBody_noreset(rs, cf, pka, type, synthon, hsp, logP, tg, loading) ==
  LET row  == ScreenRow(cf, pka, type, synthon, hsp, logP, tg, loading)
      prev == rs[Len(rs)]
  IN  IF rs # << >> /\ row.gt_tg_mix = None
      THEN Append(rs, [row EXCEPT !.gt_tg_mix = prev.gt_tg_mix,
                                  !.gt_stability = prev.gt_stability,
                                  !.t_kauz = prev.t_kauz])
      ELSE Append(rs, row)

(* results.append(row) *)
LoopBody(rs, cf, pka, type, synthon, hsp, logP, tg, loading) ==
  Append(rs, ScreenRow(cf, pka, type, synthon, hsp, logP, tg, loading))

ScreenRaises(cf, tg, loading) ==
  \/ cf.hygro_risk \notin DOMAIN hygro_base
  \/ /\ IsPolymer(cf.type)
     /\ cf.tg_polymer # None /\ cf.tg_polymer # Some(0)
     /\ tg # None
     /\ gordon_taylor_tg(tg, cf.tg_polymer, loading) = ZeroDivisionError

(***************************************************************************)
(* DataFrame(results).sort_values("Lead Score", ascending=False).  pandas  *)
(* sorts with kind="quicksort", which is not stable: the order of rows     *)
(* with equal Lead Score is not fixed by the source.  The two outcomes     *)
(* modelled keep tied rows in loop order or in reverse loop order.         *)
(***************************************************************************)
(* variant: ascending=False forgotten *)
RECURSIVE InsertAsc(_, _, _)
InsertAsc(row, sorted, tiesAfter) ==
  IF sorted = << >> THEN <<row>>
  ELSE IF \/ Head(sorted).lead_score < row.lead_score
          \/ (tiesAfter /\ Head(sorted).lead_score = row.lead_score)
       THEN <<Head(sorted)>> \o InsertAsc(row, Tail(sorted), tiesAfter)
       ELSE <<row>> \o sorted

RECURSIVE InsertDesc(_, _, _)
InsertDesc(row, sorted, tiesAfter) ==
  IF sorted = << >> THEN <<row>>
  ELSE IF \/ Head(sorted).lead_score > row.lead_score
          \/ (tiesAfter /\ Head(sorted).lead_score = row.lead_score)
       THEN <<Head(sorted)>> \o InsertDesc(row, Tail(sorted), tiesAfter)
       ELSE <<row>> \o sorted

RECURSIVE SortValuesFrom(_, _, _)
SortValuesFrom(rows, sorted, tiesAfter) ==
  IF rows = << >> THEN sorted
  ELSE SortValuesFrom(Tail(rows), InsertDesc(Head(rows), sorted, tiesAfter), tiesAfter)

sort_values(rows, tiesAfter) == SortValuesFrom(rows, << >>, tiesAfter)

(***************************************************************************)
(* Inputs of the sidebar                                                   *)
(***************************************************************************)
MaxPkaK == 28

ApiPkaValues == { 50 * k : k \in 0 .. MaxPkaK }

ApiTypes == {"Base", "Acid"}

ApiSynthons == {"Carboxylic Acid", "Amine", "Pyridine", "Amide", "Phenol",
                "Sulfonate", "Hydroxyl"}

(* the sidebar default, and the triples of PVP-K30 and of Hydrochloride *)
ApiHspValues == { <<185, 105, 75>>, <<174, 108, 95>>, <<165, 130, 100>> }

ApiLogPValues == {20, 35}

(* API Tg and drug loading (%): the sidebar defaults, and -383.90 C at     *)
(* 20 %.  -383.90 C is -110.75 K: with PVP-K30 (443 K) K is -0.25 and      *)
(* w_api + K*w_pol is 0.2 - 0.25*0.8 = 0                                   *)
ApiAsdValues == { <<Some(10000), 30>>, <<Some(-38390), 20>> }

NoCall == [fn |-> "none", args |-> << >>, ret |-> << >>]

Init ==
  /\ api_pka \in ApiPkaValues
  /\ api_type \in ApiTypes
  /\ api_synthon \in ApiSynthons
  /\ api_hsp \in ApiHspValues
  /\ api_logP \in ApiLogPValues
  /\ \E asd \in ApiAsdValues : api_tg = asd[1] /\ api_loading = asd[2]
  /\ catalog = coformers_db
  /\ etter_table = etter_scores
  /\ idx = 1
  /\ results = << >>
  /\ df_full = << >>
  /\ pc = "screen"
  /\ call = NoCall

ScreenCandidate ==
  /\ pc = "screen"
  /\ call.fn = "none"
  /\ idx <= Len(catalog)
  /\ LET cf == catalog[idx]
     IN  /\ etter_table' = EtterAfterGet(etter_table, api_synthon, cf.synthon)
         /\ IF ScreenRaises(cf, api_tg, api_loading)
            THEN /\ pc' = "raised"
                 /\ UNCHANGED <<idx, results>>
            ELSE /\ results' = LoopBody(results, cf, api_pka, api_type, api_synthon,
                                        api_hsp, api_logP, api_tg, api_loading)
                 /\ idx' = idx + 1
                 /\ pc' = IF idx = Len(catalog) THEN "sort" ELSE "screen"
  /\ UNCHANGED <<apiVars, catalog, df_full, call>>

SortValues ==
  /\ pc = "sort"
  /\ call.fn = "none"
  /\ \E tiesAfter \in BOOLEAN : df_full' = sort_values(results, tiesAfter)
  /\ pc' = "done"
  /\ UNCHANGED <<apiVars, refVars, idx, results, call>>

(***************************************************************************)
(* chart_score_components(df_full): the score breakdown of the 15 rows     *)
(* with the largest Lead Score, recomputed from the columns of each row.   *)
(* A row carries Delta pKa rounded to two decimals (the model's unit) and  *)
(* Ra rounded to two decimals: round(Ra, 2) < L holds iff Ra < L - 0.005,  *)
(* that is iff 100*ra_sq <= L*L - L for L in hundredths.  The bars are     *)
(* kept as a set, one per row; components in thousandths of a point.       *)
(***************************************************************************)
RoundedRaBelow(ra_sq, limit) == 100 * ra_sq <= limit * limit - limit

(* the "Type", "Hygro Risk" and "ICH M7 Flag" columns of a row are copies  *)
(* of its catalog entry's fields                                           *)
RowCandidate(row) ==
  CHOOSE cf \in { coformers_db[i] : i \in 1 .. N_CANDIDATES } : cf.name = row.Partner

chart_hyg == ("Low" :> 14250) @@ ("Medium" :> 9000) @@ ("High" :> 3000)

ChartBar(row, cf) ==
  [Partner |-> row.Partner,
   pka_s   |-> cruz_cabeza_pka_probability(row.delta_pka) * 30,
   syn_s   |-> row.e_score * 10000,
   misc_s  |-> IF IsPolymer(cf.type) /\ row.chi # None
               THEN IF row.chi[1] < 500 THEN 20000 ELSE IF row.chi[1] < 1000 THEN 12000 ELSE 2000
               ELSE IF RoundedRaBelow(row.ra_sq, 500) THEN 20000
               ELSE IF RoundedRaBelow(row.ra_sq, 700) THEN 12000
               ELSE IF RoundedRaBelow(row.ra_sq, 1000) THEN 5000 ELSE 0,
   hyg_s   |-> chart_hyg[cf.hygro_risk],
   ich_s   |-> IF cf.ich_flag THEN 0 ELSE 10000,
   sri_s   |-> sri_score(row.sri)]

CHART_ROWS == 15

chart_score_components(df) ==
  { ChartBar(df[k], RowCandidate(df[k])) : k \in 1 .. Min(CHART_ROWS, Len(df)) }

(* the report is built from the sorted table *)
ChartScoreComponents ==
  /\ pc = "done"
  /\ call.fn = "none"
  /\ call' = [fn |-> "chart_score_components", args |-> << >>,
              ret |-> <<chart_score_components(df_full)>>]
  /\ UNCHANGED <<apiVars, refVars, runVars>>

Next == ScreenCandidate \/ SortValues \/ ChartScoreComponents

Spec == Init /\ [][Next]_vars

(***************************************************************************)
(* Function-level specifications: Init draws the arguments, the action     *)
(* applies the function.  The screening run stays idle.                    *)
(***************************************************************************)
MaxDeltaProbe == 800

MaxGap == 2

MaxHspOffset == 1

IdleRun ==
  /\ api_pka = 700
  /\ api_type = "Base"
  /\ api_synthon = "Carboxylic Acid"
  /\ api_hsp = <<185, 105, 75>>
  /\ api_logP = 20
  /\ api_tg = Some(10000)
  /\ api_loading = 30
  /\ catalog = coformers_db
  /\ etter_table = etter_scores
  /\ idx = 1
  /\ results = << >>
  /\ df_full = << >>
  /\ pc = "idle"

InitCruz ==
  /\ IdleRun
  /\ \E a \in (-MaxDeltaProbe) .. MaxDeltaProbe, g \in 0 .. MaxGap :
       call = [fn |-> "cruz_cabeza_pka_probability", args |-> <<a, a + g>>, ret |-> << >>]

CallCruzCabeza ==
  /\ call.fn = "cruz_cabeza_pka_probability"
  /\ call.ret = << >>
  /\ call' = [call EXCEPT !.ret = <<cruz_cabeza_pka_probability(call.args[1]),
                                    cruz_cabeza_pka_probability(call.args[2])>>]
  /\ UNCHANGED <<apiVars, refVars, runVars>>

NextCruz == CallCruzCabeza

SpecCruz == InitCruz /\ [][NextCruz]_vars

CatalogHsp == { <<coformers_db[i].dd, coformers_db[i].dp, coformers_db[i].dh>> :
                i \in 1 .. N_CANDIDATES }

HspProbeValues ==
  CatalogHsp \cup { <<185 + i, 105 + j, 75 + k>> : i, j, k \in 0 .. MaxHspOffset }

InitHansen ==
  /\ IdleRun
  /\ \E a \in HspProbeValues, c \in HspProbeValues :
       call = [fn |-> "ra", args |-> <<a, c>>, ret |-> << >>]

(* the expression of ra, evaluated both ways round and on (a, a) *)
CallHansenRa ==
  /\ call.fn = "ra"
  /\ call.ret = << >>
  /\ call' = [call EXCEPT !.ret = <<RaSq(call.args[1], call.args[2]),
                                    RaSq(call.args[2], call.args[1]),
                                    RaSq(call.args[1], call.args[1])>>]
  /\ UNCHANGED <<apiVars, refVars, runVars>>

NextHansen == CallHansenRa

SpecHansen == InitHansen /\ [][NextHansen]_vars

(***************************************************************************)
(* The screening loop with the candidates scored in another order than     *)
(* the catalog's: call.args[1] is the order, a permutation of the catalog  *)
(* positions.  The sort then ranks both this run's rows and the rows of    *)
(* the catalog-order run.  sort_values sees the Lead Score column only:    *)
(* on two inputs with the same column it permutes the positions alike.     *)
(***************************************************************************)
IdentityOrder == [i \in 1 .. N_CANDIDATES |-> i]

ReverseOrder == [i \in 1 .. N_CANDIDATES |-> N_CANDIDATES + 1 - i]

SwapOrder(k) ==
  [i \in 1 .. N_CANDIDATES |-> IF i = k THEN k + 1 ELSE IF i = k + 1 THEN k ELSE i]

ScoringOrders ==
  {IdentityOrder, ReverseOrder} \cup { SwapOrder(k) : k \in 1 .. (N_CANDIDATES - 1) }

(* results after the first n iterations of the loop over catalog in order *)
RECURSIVE ResultsInOrder(_, _)
ResultsInOrder(order, n) ==
  IF n = 0 THEN << >>
  ELSE LoopBody(ResultsInOrder(order, n - 1), catalog[order[n]], api_pka, api_type,
                api_synthon, api_hsp, api_logP, api_tg, api_loading)

LeadScores(rows) == [i \in 1 .. Len(rows) |-> rows[i].lead_score]

InitAnyOrder ==
  /\ api_pka \in ApiPkaValues
  /\ api_type \in ApiTypes
  /\ api_synthon = "Carboxylic Acid"
  /\ api_hsp = <<185, 105, 75>>
  /\ api_logP = 20
  /\ api_tg = Some(10000)
  /\ api_loading = 30
  /\ catalog = coformers_db
  /\ etter_table = etter_scores
  /\ idx = 1
  /\ results = << >>
  /\ df_full = << >>
  /\ pc = "screen"
  /\ \E order \in ScoringOrders :
       call = [fn |-> "any_order", args |-> <<order>>, ret |-> << >>]

ScreenAnyOrder ==
  /\ pc = "screen"
  /\ call.fn = "any_order"
  /\ idx <= Len(catalog)
  /\ LET cf == catalog[call.args[1][idx]]
     IN  /\ etter_table' = EtterAfterGet(etter_table, api_synthon, cf.synthon)
         /\ IF ScreenRaises(cf, api_tg, api_loading)
            THEN /\ pc' = "raised"
                 /\ UNCHANGED <<idx, results>>
            ELSE /\ results' = LoopBody(results, cf, api_pka, api_type, api_synthon,
                                        api_hsp, api_logP, api_tg, api_loading)
                 /\ idx' = idx + 1
                 /\ pc' = IF idx = Len(catalog) THEN "sort" ELSE "screen"
  /\ UNCHANGED <<apiVars, catalog, df_full, call>>

SortAnyOrder ==
  /\ pc = "sort"
  /\ call.fn = "any_order"
  /\ LET reference == ResultsInOrder(IdentityOrder, Len(catalog))
     IN  \E tiesAfter \in BOOLEAN, refTiesAfter \in BOOLEAN :
           /\ LeadScores(results) = LeadScores(reference) => tiesAfter = refTiesAfter
           /\ df_full' = sort_values(results, tiesAfter)
           /\ call' = [call EXCEPT !.ret = <<sort_values(reference, refTiesAfter)>>]
  /\ pc' = "done"
  /\ UNCHANGED <<apiVars, refVars, idx, results>>

NextAnyOrder == ScreenAnyOrder \/ SortAnyOrder

SpecAnyOrder == InitAnyOrder /\ [][NextAnyOrder]_vars

(* dose_number and gordon_taylor_tg on degenerate and ordinary arguments *)
DoseProbeValues == {50, 100}

MaxSolProbe == 12

SolubilityProbeValues ==
  {None} \cup { Some(25 * k) : k \in (-2) .. MaxSolProbe }

TgApiProbeValues ==
  {None, Some(-38390), Some(-27315), Some(-5000), Some(2500), Some(10000), Some(18000)}

TgPolymerProbeValues ==
  {None, Some(0), Some(-10), Some(443), Some(393), Some(379), Some(433)}

LoadingProbeValues == {5, 20, 30, 60, 100, 120}

InitDegenerate ==
  /\ IdleRun
  /\ \/ \E d \in DoseProbeValues, sol \in SolubilityProbeValues :
          call = [fn |-> "dose_number", args |-> <<d, sol>>, ret |-> << >>]
     \/ \E tg \in TgApiProbeValues, pol \in TgPolymerProbeValues, w \in LoadingProbeValues :
          call = [fn |-> "gordon_taylor_tg", args |-> <<tg, pol, w>>, ret |-> << >>]

CallDoseNumber ==
  /\ call.fn = "dose_number"
  /\ call.ret = << >>
  /\ call' = [call EXCEPT !.ret = <<dose_number(call.args[1], call.args[2])>>]
  /\ UNCHANGED <<apiVars, refVars, runVars>>

CallGordonTaylor ==
  /\ call.fn = "gordon_taylor_tg"
  /\ call.ret = << >>
  /\ call' = [call EXCEPT !.ret = <<gordon_taylor_tg(call.args[1], call.args[2],
                                                     call.args[3])>>]
  /\ UNCHANGED <<apiVars, refVars, runVars>>

NextDegenerate == CallDoseNumber \/ CallGordonTaylor

SpecDegenerate == InitDegenerate /\ [][NextDegenerate]_vars

(* the miscibility component with the arguments the loop passes: chi for  *)
(* a polymer, None for another candidate; chi in thousandths, 100*Ra^2     *)
MaxChiK == 30

MaxRaK == 110

CandidateTypes == { coformers_db[i].type : i \in 1 .. N_CANDIDATES }

InitMisc ==
  /\ IdleRun
  /\ \E cf_type \in CandidateTypes, c \in 0 .. MaxChiK, k \in 0 .. MaxRaK :
       call = [fn |-> "score_misc",
               args |-> <<cf_type, IF IsPolymer(cf_type) THEN Some(50 * c) ELSE None,
                          100 * k>>,
               ret |-> << >>]

CallScoreMisc ==
  /\ call.fn = "score_misc"
  /\ call.ret = << >>
  /\ call' = [call EXCEPT !.ret = <<score_misc(call.args[1], call.args[2], call.args[3])>>]
  /\ UNCHANGED <<apiVars, refVars, runVars>>

NextMisc == CallScoreMisc

SpecMisc == InitMisc /\ [][NextMisc]_vars

(* hygro_penalty as composite_lead_score calls it for catalog entry        *)
(* call.args[1]                                                            *)
InitHygro ==
  /\ IdleRun
  /\ \E i \in 1 .. N_CANDIDATES, pka \in ApiPkaValues, type \in ApiTypes :
       call = [fn |-> "hygro_penalty", args |-> <<i, pka, type>>, ret |-> << >>]

CallHygroPenalty ==
  /\ call.fn = "hygro_penalty"
  /\ call.ret = << >>
  /\ call' = [call EXCEPT !.ret = <<hygro_penalty(catalog[call.args[1]].hygro_risk,
                                                  call.args[2], call.args[3])>>]
  /\ UNCHANGED <<apiVars, refVars, runVars>>

NextHygro == CallHygroPenalty

SpecHygro == InitHygro /\ [][NextHygro]_vars

(***************************************************************************)
(* HSP estimator (spec.md 4.1).  The source file has no estimator: the     *)
(* definitions below follow the specification's text.  A fragment          *)
(* definition is [Fd, Fp, Uh, V, MW]; a count map gives a count to the     *)
(* keys it holds.  Volumes are in hundredths of cm3/mol, the three         *)
(* parameters in tenths of MPa^0.5, each rounded down.                     *)
(***************************************************************************)
RECURSIVE ISqrtIn(_, _, _)
ISqrtIn(n, lo, hi) ==
  IF lo >= hi THEN lo
  ELSE LET mid == (lo + hi + 1) \div 2
       IN  IF mid * mid <= n THEN ISqrtIn(n, mid, hi) ELSE ISqrtIn(n, lo, mid - 1)

(* floor of the square root, for 0 <= n < 2^30 *)
ISqrt(n) == ISqrtIn(n, 0, 32767)

DD_FLOOR == 120

(* the keys of the map that the fragment table knows, with count > 0 *)
PresentFragments(counts, fragment_db) ==
  { f \in DOMAIN counts \cap DOMAIN fragment_db : counts[f] > 0 }

RECURSIVE FragmentSum(_, _, _, _)
FragmentSum(present, counts, fragment_db, field) ==
  IF present = {} THEN 0
  ELSE LET f == CHOOSE g \in present : TRUE
       IN  (IF field = "Fp2" THEN fragment_db[f].Fp * fragment_db[f].Fp
            ELSE fragment_db[f][field]) * counts[f]
           + FragmentSum(present \ {f}, counts, fragment_db, field)

(* a dual-fragment correction [first, second, magnitude] is active once    *)
(* when both fragments occur                                               *)
CorrectionSum(present, correction) ==
  IF correction.first \in present /\ correction.second \in present
  THEN correction.magnitude * correction.magnitude ELSE 0

(* molar volume, with the fallback max(0.85*MW, 50) when the sum is <= 0 *)
MolarVolume(sum_v, sum_mw) ==
  IF sum_v <= 0 THEN (IF 85 * sum_mw > 5000 THEN 85 * sum_mw ELSE 5000) ELSE 100 * sum_v

(* variant: delta_d is not floor-clamped *)
estimate_hsp_unclamped(counts, fragment_db, correction) ==
  LET present == PresentFragments(counts, fragment_db)
      sum_fd  == FragmentSum(present, counts, fragment_db, "Fd")
      sum_fp2 == FragmentSum(present, counts, fragment_db, "Fp2")
                   + CorrectionSum(present, correction)
      sum_uh  == FragmentSum(present, counts, fragment_db, "Uh")
      v       == MolarVolume(FragmentSum(present, counts, fragment_db, "V"),
                             FragmentSum(present, counts, fragment_db, "MW"))
      dd      == (1000 * sum_fd) \div v
      dp      == IF sum_fp2 = 0 THEN 0 ELSE (100 * ISqrt(100 * sum_fp2)) \div v
      dh      == IF sum_uh = 0 THEN 0 ELSE ISqrt((20000 * sum_uh) \div v)
  IN  IF present = {} THEN [dd |-> 0, dp |-> 0, dh |-> 0]
      ELSE [dd |-> dd,
            dp |-> IF dp < 0 THEN 0 ELSE dp,
            dh |-> IF dh < 0 THEN 0 ELSE dh]

estimate_hsp(counts, fragment_db, correction) ==
  LET present == PresentFragments(counts, fragment_db)
      sum_fd  == FragmentSum(present, counts, fragment_db, "Fd")
      sum_fp2 == FragmentSum(present, counts, fragment_db, "Fp2")
                   + CorrectionSum(present, correction)
      sum_uh  == FragmentSum(present, counts, fragment_db, "Uh")
      v       == MolarVolume(FragmentSum(present, counts, fragment_db, "V"),
                             FragmentSum(present, counts, fragment_db, "MW"))
      dd      == (1000 * sum_fd) \div v
      dp      == IF sum_fp2 = 0 THEN 0 ELSE (100 * ISqrt(100 * sum_fp2)) \div v
      dh      == IF sum_uh = 0 THEN 0 ELSE ISqrt((20000 * sum_uh) \div v)
  IN  IF present = {} THEN [dd |-> 0, dp |-> 0, dh |-> 0]
      ELSE [dd |-> IF dd < DD_FLOOR THEN DD_FLOOR ELSE dd,
            dp |-> IF dp < 0 THEN 0 ELSE dp,
            dh |-> IF dh < 0 THEN 0 ELSE dh]

MaxFragCount == 2

(* a carboxylic acid group with fixed contributions, and a second fragment *)
(* whose contributions are drawn: all non-negative except V                *)
CarboxylicAcid == [Fd |-> 530, Fp |-> 420, Uh |-> 10000, V |-> 29, MW |-> 45]

DrawnFragments ==
  [Fd : {0, 420}, Fp : {0, 50}, Uh : {0, 3000}, V : {-10, 0, 34}, MW : {0, 15, 90}]

FragmentDbValues ==
  { ("carboxylic-acid" :> CarboxylicAcid) @@ ("methyl" :> d) : d \in DrawnFragments }

CountMapValues ==
  { [k \in keys |-> n[k]] :
      keys \in SUBSET {"carboxylic-acid", "methyl", "nonexistent_group"},
      n \in [{"carboxylic-acid", "methyl", "nonexistent_group"} -> 0 .. MaxFragCount] }

CorrectionValues ==
  { [first |-> "carboxylic-acid", second |-> "methyl", magnitude |-> m] : m \in {0, 200} }

InitEstimator ==
  /\ IdleRun
  /\ \E counts \in CountMapValues, db \in FragmentDbValues, corr \in CorrectionValues :
       call = [fn |-> "estimate_hsp", args |-> <<counts, db, corr>>, ret |-> << >>]

CallEstimator ==
  /\ call.fn = "estimate_hsp"
  /\ call.ret = << >>
  /\ call' = [call EXCEPT !.ret = <<estimate_hsp(call.args[1], call.args[2],
                                                 call.args[3])>>]
  /\ UNCHANGED <<apiVars, refVars, runVars>>

NextEstimator == CallEstimator

SpecEstimator == InitEstimator /\ [][NextEstimator]_vars

(***************************************************************************)
(* Solvent screening (spec.md 4.4).  The source file has no solvent        *)
(* screening: the definitions below follow the specification's text.  A    *)
(* solvent catalog is a sequence of HSP triples; a row names its solvent   *)
(* by catalog position.  Ra < t is decided as 100*Ra^2 < 100*t^2.          *)
(***************************************************************************)
solvent_band(ra_sq) ==
  IF ra_sq < 2500 THEN "Excellent"
  ELSE IF ra_sq < 4900 THEN "Good"
  ELSE IF ra_sq < 8100 THEN "Partial"
  ELSE IF ra_sq < 12100 THEN "Poor"
  ELSE "Insoluble"

SolventRow(api, solvents, pos) ==
  [pos |-> pos, ra_sq |-> RaSq(api, solvents[pos]), band |-> solvent_band(RaSq(api, solvents[pos]))]

(* variant: a row is put before the rows of equal Ra *)
RECURSIVE SolventInsert_before_ties(_, _)
SolventInsert_before_ties(row, sorted) ==
  IF sorted = << >> THEN <<row>>
  ELSE IF row.ra_sq <= Head(sorted).ra_sq THEN <<row>> \o sorted
  ELSE <<Head(sorted)>> \o SolventInsert_before_ties(row, Tail(sorted))

(* stable ascending sort on Ra: a row goes after the rows of equal Ra *)
RECURSIVE SolventInsert(_, _)
SolventInsert(row, sorted) ==
  IF sorted = << >> THEN <<row>>
  ELSE IF row.ra_sq < Head(sorted).ra_sq THEN <<row>> \o sorted
  ELSE <<Head(sorted)>> \o SolventInsert(row, Tail(sorted))

RECURSIVE SolventSortFrom(_, _, _)
SolventSortFrom(api, solvents, n) ==
  IF n = 0 THEN << >>
  ELSE SolventInsert(SolventRow(api, solvents, n), SolventSortFrom(api, solvents, n - 1))

solvent_screen(api, solvents) == SolventSortFrom(api, solvents, Len(solvents))

MaxSolvents == 3

(* the API's own triple, triples at Ra 2 (twice), 5 (twice), 6, 8, 10, 12 *)
SolventHspValues ==
  { <<185, 105, 75>>, <<185, 105, 95>>, <<185, 105, 55>>, <<185, 105, 125>>,
    <<160, 105, 75>>, <<185, 105, 135>>, <<185, 105, 155>>, <<185, 105, 175>>,
    <<185, 105, 195>> }

InitSolvent ==
  /\ IdleRun
  /\ \E solvents \in [1 .. MaxSolvents -> SolventHspValues] :
       call = [fn |-> "solvent_screen", args |-> <<api_hsp, solvents>>, ret |-> << >>]

CallSolventScreen ==
  /\ call.fn = "solvent_screen"
  /\ call.ret = << >>
  /\ call' = [call EXCEPT !.ret = <<solvent_screen(call.args[1], call.args[2])>>]
  /\ UNCHANGED <<apiVars, refVars, runVars>>

NextSolvent == CallSolventScreen

SpecSolvent == InitSolvent /\ [][NextSolvent]_vars

(***************************************************************************)
(* Properties                                                              *)
(***************************************************************************)
Rows(seq) == { seq[i] : i \in 1 .. Len(seq) }

Count(seq, r) == Cardinality({ i \in 1 .. Len(seq) : seq[i] = r })

Candidate(name) == CHOOSE cf \in Rows(coformers_db) : cf.name = name

CruzReturned == call.fn = "cruz_cabeza_pka_probability" /\ call.ret # << >>

HansenReturned == call.fn = "ra" /\ call.ret # << >>

(* C1: every row's Lead Score is an integer in [0, 100], and it is the     *)
(* rounded value of the six-component total capped at 100.                 *)
C1_LeadScoreInRange ==
  \A r \in Rows(results) \cup Rows(df_full) :
    /\ r.lead_score \in 0 .. 100
    /\ LET cf == Candidate(r.Partner)
       IN  r.lead_score =
             RoundHalfEven(Min(score_total(r.delta_pka, r.e_score, r.ra_sq, r.chi,
                                           cf.hygro_risk, cf.ich_flag, api_pka,
                                           api_type, cf.type, r.sri),
                               100000))

C1_Witness ==
  /\ pc = "sort"
  /\ \E r \in Rows(results) : r.lead_score >= 90
  /\ \E r \in Rows(results) : r.lead_score <= 20

(* C2: cruz_cabeza_pka_probability is monotonically non-decreasing: for    *)
(* delta_pka values a <= b, p(a) <= p(b).                                  *)
C2_Monotone ==
  CruzReturned => (call.args[1] <= call.args[2] => call.ret[1] <= call.ret[2])

(* C3: cruz_cabeza_pka_probability is continuous at delta_pka = -1: the    *)
(* value at exactly -1 is within one rounding step (0.001) of 0.05, the    *)
(* limit of the decay piece from below.                                    *)
C3_ContinuousAtMinusOne ==
  (CruzReturned /\ call.args[1] = -100) => Abs(call.ret[1] - 50) <= 1

(* C4: p(6.5) = 0.99 and p(2.0) = 0.5; above 6 the result is 0.99, on      *)
(* [-1, 6] it is the rounded sigmoid, below -1 it is at least 0.02.        *)
C4_PiecewiseValues ==
  CruzReturned =>
    LET d == call.args[1]
        p == call.ret[1]
    IN  /\ d = 650 => p = 990
        /\ d = 200 => p = 500
        /\ d > 600 => p = 990
        /\ (-100 <= d /\ d <= 600) => p = SigmoidTable[d + 101]
        /\ d < -100 => p >= 20

C4_Witness ==
  CruzReturned /\ call.args[1] = 650 /\ call.ret[1] = 990

(* C5: delta_pka is (API pKa - candidate pKa) for a Base API and           *)
(* (candidate pKa - API pKa) otherwise; a Base API of pKa 9.0 against      *)
(* Hydrochloride gets delta_pka 16, probability 0.99 and type "Salt".      *)
C5_DeltaPkaByType ==
  \A r \in Rows(results) \cup Rows(df_full) :
    LET cf == Candidate(r.Partner)
    IN  /\ api_type = "Base" => r.delta_pka = api_pka - cf.pKa
        /\ api_type # "Base" => r.delta_pka = cf.pKa - api_pka
        /\ (api_type = "Base" /\ api_pka = 900 /\ r.Partner = "Hydrochloride (Cl-)")
             => (r.delta_pka = 1600 /\ r.p_form = 990 /\ r.inter_type = "Salt")

C5_Witness ==
  /\ api_type = "Base"
  /\ api_pka = 900
  /\ \E r \in Rows(results) : r.Partner = "Hydrochloride (Cl-)" /\ r.inter_type = "Salt"

NicotinamideCase ==
  /\ api_pka = 500
  /\ api_type = "Acid"
  /\ api_synthon = "Carboxylic Acid"

(* C6 as stated: API pKa 5.0, Acid, Carboxylic Acid: the Nicotinamide row  *)
(* has synthon score 2, delta_pka in [-1, 4], the Continuum type and a     *)
(* Supersaturation Risk other than "N/A".                                  *)
C6_Original ==
  NicotinamideCase =>
    \A r \in Rows(results) :
      r.Partner = "Nicotinamide" =>
        /\ r.e_score = 2
        /\ -100 <= r.delta_pka /\ r.delta_pka <= 400
        /\ r.inter_type = "Salt / Cocrystal Continuum"
        /\ r.sri # "N/A"

(* C6 amended: in that case the Nicotinamide row has synthon score 2,      *)
(* delta_pka = 3.3 - 5.0 = -1.7, below the continuum zone, so its type is  *)
(* "Cocrystal" and its Supersaturation Risk is "N/A".                      *)
C6_NicotinamideCocrystal ==
  NicotinamideCase =>
    \A r \in Rows(results) \cup Rows(df_full) :
      r.Partner = "Nicotinamide" =>
        /\ r.e_score = 2
        /\ r.delta_pka = -170
        /\ r.inter_type = "Cocrystal"
        /\ r.sri = "N/A"

C6_Witness ==
  /\ NicotinamideCase
  /\ \E r \in Rows(results) : r.Partner = "Nicotinamide" /\ r.inter_type = "Cocrystal"

(* C7: the interaction type is Salt above 4, Continuum on [-1, 4], and     *)
(* below -1 Cocrystal for a positive synthon score and Unlikely for 0; the *)
(* synthon score has no say from -1 upwards.                               *)
C7_InteractionTypeRule ==
  \A r \in Rows(results) \cup Rows(df_full) :
    /\ r.delta_pka > 400 => r.inter_type = "Salt"
    /\ (-100 <= r.delta_pka /\ r.delta_pka <= 400)
         => r.inter_type = "Salt / Cocrystal Continuum"
    /\ (r.delta_pka < -100 /\ r.e_score > 0) => r.inter_type = "Cocrystal"
    /\ (r.delta_pka < -100 /\ r.e_score = 0) => r.inter_type = "Unlikely"

C7_Witness ==
  /\ pc = "sort"
  /\ \A t \in {"Salt", "Salt / Cocrystal Continuum", "Cocrystal", "Unlikely"} :
       \E r \in Rows(results) : r.inter_type = t
  /\ \E r \in Rows(results) :
       r.e_score > 0 /\ r.inter_type = "Salt / Cocrystal Continuum"

(* C8: the sorted table is in descending Lead Score order and holds        *)
(* exactly the rows of the loop, each once.                                *)
C8_SortedDescending ==
  pc = "done" =>
    /\ \A i \in 1 .. (Len(df_full) - 1) :
         df_full[i].lead_score >= df_full[i + 1].lead_score
    /\ Len(df_full) = Len(results)
    /\ \A r \in Rows(results) \cup Rows(df_full) : Count(df_full, r) = Count(results, r)

C8_Witness ==
  /\ pc = "done"
  /\ df_full # results
  /\ Len(df_full) = N_CANDIDATES
  /\ df_full[1].lead_score > df_full[N_CANDIDATES].lead_score

(* C9: the Hansen distance is symmetric in its two triples, is 0 for       *)
(* identical triples and is 0 only when all three components match.  Ra is *)
(* the square root of RaSq, so both hold of Ra exactly when they hold of   *)
(* RaSq.                                                                   *)
C9_HansenSymmetricZero ==
  HansenReturned =>
    /\ call.ret[1] = call.ret[2]
    /\ call.ret[3] = 0
    /\ call.ret[1] = 0 <=> call.args[1] = call.args[2]

C9_Witness ==
  /\ HansenReturned
  /\ call.args = << <<185, 105, 75>>, <<185, 105, 76>> >>
  /\ call.ret[1] > 0

(* C10: the run never raises and never stops short of the sorted table    *)
(* (until it is done the guard of its next step holds, and each step of    *)
(* the loop moves on to the next catalog entry); it has one row per        *)
(* catalog entry, in catalog order, whatever optional data is missing.     *)
C10_RunCompletes ==
  /\ pc # "raised"
  /\ pc \in {"screen", "sort", "done"}
  /\ pc = "screen" => idx <= N_CANDIDATES
  /\ idx \in 1 .. (N_CANDIDATES + 1)
  /\ Len(results) = idx - 1
  /\ \A i \in 1 .. Len(results) : results[i].Partner = coformers_db[i].name
  /\ pc \in {"sort", "done"} => Len(results) = N_CANDIDATES
  /\ pc = "done" =>
       /\ Len(df_full) = N_CANDIDATES
       /\ \A i \in 1 .. N_CANDIDATES :
            \E r \in Rows(df_full) : r.Partner = coformers_db[i].name

(* C11: missing optional data is reported by a sentinel (None stands for   *)
(* the "-" of the row): a candidate that is not a polymer or has no        *)
(* polymer Tg has no GT Tg_mix, ASD Stability "N/A" and no Kauzmann T; a   *)
(* non-polymer candidate has no chi; a candidate without melting point has *)
(* lattice-energy proxy "Unknown".                                         *)
C11_MissingDataSentinels ==
  \A i \in 1 .. Len(results) :
    LET r  == results[i]
        cf == coformers_db[i]
    IN  /\ (~IsPolymer(cf.type) \/ cf.tg_polymer = None) =>
              /\ r.gt_tg_mix = None
              /\ r.gt_stability = "N/A"
              /\ r.t_kauz = None
        /\ ~IsPolymer(cf.type) => r.chi = None
        /\ cf.mp_celsius = None => r.le_proxy = "Unknown"

C11_Witness ==
  /\ pc = "done"
  /\ \E r \in Rows(df_full) :
       /\ r.Partner = "Sodium (Na+)"
       /\ r.gt_tg_mix = None /\ r.gt_stability = "N/A" /\ r.t_kauz = None
       /\ r.chi = None
       /\ r.le_proxy = "Unknown"
  /\ \E r \in Rows(df_full) :
       /\ r.Partner = "PVP-K30"
       /\ r.gt_tg_mix # None /\ r.chi # None
       /\ r.le_proxy = "Unknown"
  /\ \E r \in Rows(df_full) : r.Partner = "Saccharin" /\ r.le_proxy # "Unknown"

(* C13: degenerate numeric inputs never cause a division by zero:          *)
(* dose_number returns None when the solubility is None or <= 0;           *)
(* gordon_taylor_tg returns None when the polymer Tg is None or <= 0,      *)
(* returns the API Tg (to one decimal) when the polymer weight fraction is *)
(* <= 0, and never divides by a zero denominator otherwise.                *)
C13_NoDivisionByZero ==
  /\ (call.fn = "dose_number" /\ call.ret # << >>) =>
        /\ call.ret[1] # ZeroDivisionError
        /\ (call.args[2] = None \/ call.args[2][1] <= 0) => call.ret[1] = None
  /\ (call.fn = "gordon_taylor_tg" /\ call.ret # << >>) =>
        LET tg  == call.args[1]
            pol == call.args[2]
            w   == call.args[3]
        IN  /\ call.ret[1] # ZeroDivisionError
            /\ (pol = None \/ pol[1] <= 0) => call.ret[1] = None
            /\ (tg # None /\ pol # None /\ pol[1] > 0 /\ w >= 100) =>
                  call.ret[1] # None /\ 10 * call.ret[1][1] = tg[1]

AnyOrderRun == call.fn = "any_order"

RequiredFields == {"pKa", "dd", "dp", "dh", "type", "synthon", "hygro_risk", "ich_flag"}

(* C14: the catalog holds one record per identifier: no two entries have   *)
(* the same name, and every entry carries pKa, dd, dp, dh, type, synthon,  *)
(* hygro_risk in {High, Medium, Low} and ich_flag; so no two result rows   *)
(* have the same Partner.                                                  *)
C14_OneRecordPerName ==
  /\ \A i, j \in 1 .. Len(catalog) : catalog[i].name = catalog[j].name => i = j
  /\ \A i \in 1 .. Len(catalog) :
       /\ RequiredFields \subseteq DOMAIN catalog[i]
       /\ catalog[i].hygro_risk \in {"High", "Medium", "Low"}
       /\ catalog[i].ich_flag \in BOOLEAN
  /\ \A i, j \in 1 .. Len(results) : results[i].Partner = results[j].Partner => i = j

C14_Witness ==
  /\ pc = "done"
  /\ Len(catalog) = 34
  /\ Cardinality({ catalog[i].name : i \in 1 .. Len(catalog) }) = 34
  /\ Cardinality({ r.Partner : r \in Rows(df_full) }) = 34

(* C15: a screening run leaves the reference data unchanged: no step       *)
(* changes an entry of coformers_db or of etter_scores, nor a value passed *)
(* to a scoring function (the API inputs and the entry's fields).          *)
C15_ReferenceDataUnchanged ==
  [][catalog' = catalog /\ etter_table' = etter_table /\ apiVars' = apiVars]_vars

(* the run is over, Etter lookups that miss the table (Phenol API with an  *)
(* inorganic ion) have been made, and both objects are as defined          *)
C15_Witness ==
  /\ pc = "done"
  /\ api_synthon = "Phenol"
  /\ <<api_synthon, catalog[1].synthon>> \notin DOMAIN etter_scores
  /\ \E r \in Rows(df_full) : r.Partner = catalog[1].name /\ r.e_score = 0
  /\ catalog = coformers_db
  /\ etter_table = etter_scores

EstimatorReturned == call.fn = "estimate_hsp" /\ call.ret # << >>

KnownFragmentPresent ==
  \E f \in DOMAIN call.args[1] \cap DOMAIN call.args[2] : call.args[1][f] > 0

(* C16 as stated: for every count map with non-negative counts, the empty  *)
(* map and a map of unknown keys only included, delta_d >= 12.0,           *)
(* delta_p >= 0 and delta_h >= 0; the empty map yields all zeros.          *)
C16_Original ==
  EstimatorReturned =>
    /\ call.ret[1].dd >= 120
    /\ call.ret[1].dp >= 0
    /\ call.ret[1].dh >= 0
    /\ DOMAIN call.args[1] = {} => call.ret[1] = [dd |-> 0, dp |-> 0, dh |-> 0]

(* C16: for every count map with non-negative counts delta_p >= 0 and      *)
(* delta_h >= 0; delta_d >= 12.0 when a known fragment has a count > 0;    *)
(* the empty map and a map of unknown keys only yield all zeros.           *)
C16_ClampedOrZero ==
  EstimatorReturned =>
    /\ call.ret[1].dp >= 0
    /\ call.ret[1].dh >= 0
    /\ KnownFragmentPresent => call.ret[1].dd >= 120
    /\ DOMAIN call.args[1] \subseteq {"nonexistent_group"} =>
         call.ret[1] = [dd |-> 0, dp |-> 0, dh |-> 0]

(* one methyl with no dispersion contribution: delta_d is raised to 12.0 *)
C16_Witness ==
  /\ EstimatorReturned
  /\ DOMAIN call.args[1] = {"methyl"}
  /\ call.args[1]["methyl"] = 1
  /\ call.args[2]["methyl"].Fd = 0
  /\ call.args[2]["methyl"].Uh > 0
  /\ call.ret[1].dd = 120
  /\ call.ret[1].dh > 0

SolventReturned == call.fn = "solvent_screen" /\ call.ret # << >>

(* C17: every solvent is labelled by its Ra (< 5 Excellent, < 7 Good,      *)
(* < 9 Partial, < 11 Poor, else Insoluble); the table has one row per      *)
(* solvent, sorted ascending by Ra, ties in catalog order; a solvent with  *)
(* the API's own triple (18.5, 10.5, 7.5) has Ra = 0 and is Excellent.     *)
C17_SolventTable ==
  SolventReturned =>
    LET api      == call.args[1]
        solvents == call.args[2]
        table    == call.ret[1]
    IN  /\ Len(table) = Len(solvents)
        /\ { table[i].pos : i \in 1 .. Len(table) } = 1 .. Len(solvents)
        /\ \A i \in 1 .. Len(table) :
             LET d == solvents[table[i].pos]
                 r == 4 * (api[1] - d[1]) * (api[1] - d[1])
                      + (api[2] - d[2]) * (api[2] - d[2])
                      + (api[3] - d[3]) * (api[3] - d[3])
             IN  /\ table[i].ra_sq = r
                 /\ table[i].band = "Excellent" <=> r < 2500
                 /\ table[i].band = "Good" <=> (r >= 2500 /\ r < 4900)
                 /\ table[i].band = "Partial" <=> (r >= 4900 /\ r < 8100)
                 /\ table[i].band = "Poor" <=> (r >= 8100 /\ r < 12100)
                 /\ table[i].band = "Insoluble" <=> r >= 12100
                 /\ d = <<185, 105, 75>> => table[i].ra_sq = 0 /\ table[i].band = "Excellent"
        /\ \A i, j \in 1 .. Len(table) :
             i < j => \/ table[i].ra_sq < table[j].ra_sq
                      \/ table[i].ra_sq = table[j].ra_sq /\ table[i].pos < table[j].pos

(* two solvents at Ra = 2 before the solvent with the API's triple *)
C17_Witness ==
  /\ SolventReturned
  /\ call.args[1] = <<185, 105, 75>>
  /\ call.args[2] = << <<185, 105, 95>>, <<185, 105, 55>>, <<185, 105, 75>> >>
  /\ call.ret[1][1] = [pos |-> 3, ra_sq |-> 0, band |-> "Excellent"]
  /\ call.ret[1][2].pos = 1
  /\ call.ret[1][3].pos = 2
  /\ call.ret[1][2].ra_sq = call.ret[1][3].ra_sq

(* "Hydrochloride" in cf["name"] *)
IsHydrochloride(cf) == cf.name = "Hydrochloride (Cl-)"

(* C18: the hygroscopicity penalty is 0.80, 0.40 or 0.05 for tier High,    *)
(* Medium or Low, plus 0.15 exactly when the tier is High, the candidate   *)
(* is a hydrochloride and the API is a base with pKa > 8; a High-tier      *)
(* candidate that is not a hydrochloride keeps 0.80 for every API.         *)
C18_HydrochlorideExtra ==
  (call.fn = "hygro_penalty" /\ call.ret # << >>) =>
    LET cf    == coformers_db[call.args[1]]
        tier  == IF cf.hygro_risk = "High" THEN 80
                 ELSE IF cf.hygro_risk = "Medium" THEN 40 ELSE 5
        extra == /\ cf.hygro_risk = "High"
                 /\ IsHydrochloride(cf)
                 /\ call.args[3] = "Base"
                 /\ call.args[2] > 800
    IN  /\ call.ret[1] = tier + (IF extra THEN 15 ELSE 0)
        /\ (cf.hygro_risk = "High" /\ ~IsHydrochloride(cf)) => call.ret[1] = 80

(* C19: a polymer candidate's label follows chi = (100/(8.314*298.15)) *   *)
(* sum of squared differences: Miscible when chi < 0.5 (chi = 0 for        *)
(* identical triples included), Borderline when 0.5 <= chi < 1.0,          *)
(* Immiscible when chi >= 1.0; a non-polymer candidate's label is High     *)
(* exactly when Ra < 7, else Low.  With d the sum of squares in tenths,    *)
(* chi < c is 10000 * d < c * RT4.                                         *)
C19_MiscibilityLabel ==
  \A i \in 1 .. Len(results) :
    LET r  == results[i]
        cf == coformers_db[i]
        d  == (api_hsp[1] - cf.dd) * (api_hsp[1] - cf.dd)
              + (api_hsp[2] - cf.dp) * (api_hsp[2] - cf.dp)
              + (api_hsp[3] - cf.dh) * (api_hsp[3] - cf.dh)
    IN  IF IsPolymer(cf.type)
        THEN /\ r.misc_label = "Miscible (chi<0.5)" <=> 20000 * d < RT4
             /\ r.misc_label = "Borderline (0.5-1)" <=>
                   (20000 * d >= RT4 /\ 10000 * d < RT4)
             /\ r.misc_label = "Immiscible (chi>1)" <=> 10000 * d >= RT4
        ELSE /\ r.misc_label = "High" <=> r.ra_sq < 4900
             /\ r.misc_label = "Low" <=> r.ra_sq >= 4900

MiscReturned == call.fn = "score_misc" /\ call.ret # << >>

(* C20 as stated: the miscibility component is 20, 12, 5 or 0 by band for  *)
(* small-molecule candidates (by Ra) and polymer candidates (by chi)       *)
(* alike, and a candidate in the worst band contributes 0.                 *)
C20_Original ==
  MiscReturned =>
    /\ call.ret[1] \in {20000, 12000, 5000, 0}
    /\ (IsPolymer(call.args[1]) /\ call.args[2][1] >= 1000) => call.ret[1] = 0
    /\ (~IsPolymer(call.args[1]) /\ call.args[3] >= 10000) => call.ret[1] = 0

(* C20: the miscibility component is 20, 12, 5 or 0 for a small-molecule   *)
(* candidate (Ra < 5, < 7, < 10, otherwise) and 20, 12 or 2 for a polymer  *)
(* candidate (chi < 0.5, < 1.0, otherwise): in the worst band a small      *)
(* molecule contributes 0 and a polymer 2.                                 *)
C20_MiscComponent ==
  MiscReturned =>
    LET chi   == call.args[2]
        ra_sq == call.args[3]
    IN  IF IsPolymer(call.args[1])
        THEN /\ chi[1] < 500 => call.ret[1] = 20000
             /\ (chi[1] >= 500 /\ chi[1] < 1000) => call.ret[1] = 12000
             /\ chi[1] >= 1000 => call.ret[1] = 2000
        ELSE /\ ra_sq < 2500 => call.ret[1] = 20000
             /\ (ra_sq >= 2500 /\ ra_sq < 4900) => call.ret[1] = 12000
             /\ (ra_sq >= 4900 /\ ra_sq < 10000) => call.ret[1] = 5000
             /\ ra_sq >= 10000 => call.ret[1] = 0

(* a polymer with chi = 1.0 *)
C20_Witness ==
  /\ MiscReturned
  /\ call.args[1] = "Polymer (ASD)"
  /\ call.args[2] = Some(1000)
  /\ call.ret[1] = 2000

(* C21: the Lead Score is round(min(100, 30*p + 20*(synthon score/2) +     *)
(* miscibility points + 15*(1 - hygroscopicity penalty) + (0 if flagged    *)
(* else 10) + supersaturation points)), with supersaturation points 5 for  *)
(* Low or N/A, 2.5 for Medium, 0 for High; nothing else enters the score.  *)
(* Points are in thousandths.                                              *)
C21_LeadScoreFormula ==
  \A i \in 1 .. Len(results) :
    LET r      == results[i]
        cf     == coformers_db[i]
        supers == IF r.sri \in {"Low", "N/A"} THEN 5000
                  ELSE IF r.sri = "Medium" THEN 2500 ELSE 0
        total  == 30 * r.p_form
                  + 20 * (500 * r.e_score)
                  + score_misc(cf.type, r.chi, r.ra_sq)
                  + 15 * (1000 - 10 * hygro_penalty(cf.hygro_risk, api_pka, api_type))
                  + (IF cf.ich_flag THEN 0 ELSE 10000)
                  + supers
        capped == IF total > 100000 THEN 100000 ELSE total
    IN  /\ r.sri \in {"Low", "N/A", "Medium", "High"}
        /\ r.lead_score = RoundHalfEven(capped)

C21_Witness ==
  /\ pc = "done"
  /\ \E r \in Rows(df_full) : r.sri = "Medium" /\ r.lead_score > 0
  /\ \E r \in Rows(df_full) : r.sri = "High" /\ r.lead_score > 0
  /\ \E r \in Rows(df_full) : r.sri = "N/A"
  /\ \E r \in Rows(df_full) : Candidate(r.Partner).ich_flag /\ r.lead_score > 0

(* C22: the Supersaturation Risk Index of a row is "N/A" exactly when its  *)
(* interaction type is Salt or Cocrystal; type Unlikely always gives       *)
(* "High"; type Continuum always gives one of High, Medium, Low.           *)
C22_RiskByInteractionType ==
  \A r \in Rows(results) \cup Rows(df_full) :
    /\ (r.sri = "N/A") <=> (r.inter_type \in {"Salt", "Cocrystal"})
    /\ (r.inter_type = "Unlikely") => (r.sri = "High")
    /\ (r.inter_type = "Salt / Cocrystal Continuum") => (r.sri \in {"High", "Medium", "Low"})

C22_Witness ==
  /\ pc = "done"
  /\ \A t \in {"Salt", "Cocrystal", "Unlikely", "Salt / Cocrystal Continuum"} :
        \E r \in Rows(df_full) : r.inter_type = t
  /\ \A l \in {"High", "Medium", "Low"} :
        \E r \in Rows(df_full) : r.inter_type = "Salt / Cocrystal Continuum" /\ r.sri = l

(***************************************************************************)
(* supersaturation_risk_index called twice in the Continuum class, on two  *)
(* drawn argument triples <<delta_pka, etter_val, logP>>.                  *)
(***************************************************************************)
SriDeltaValues == {-100, 0, 99, 100, 101, 199, 200, 201, 400}

SriLogPValues == {-10, 0, 20, 30, 31, 45}

SriArgs == SriDeltaValues \X {0, 1, 2} \X SriLogPValues

InitSri ==
  /\ IdleRun
  /\ \E a1 \in SriArgs, a2 \in SriArgs :
       call = [fn |-> "supersaturation_risk_index", args |-> <<a1, a2>>, ret |-> << >>]

CallSri ==
  /\ call.fn = "supersaturation_risk_index"
  /\ Len(call.ret) < 2
  /\ LET a == call.args[Len(call.ret) + 1]
     IN  call' = [call EXCEPT !.ret = Append(@,
                    supersaturation_risk_index(a[1], "Salt / Cocrystal Continuum", a[2], a[3]))]
  /\ UNCHANGED <<apiVars, refVars, runVars>>

NextSri == CallSri

SpecSri == InitSri /\ [][NextSri]_vars

SriReturned == call.fn = "supersaturation_risk_index" /\ Len(call.ret) = 2

RiskRank(label) == CASE label = "Low" -> 0 [] label = "Medium" -> 1 [] label = "High" -> 2

(* C23: in the Continuum class, with Low < Medium < High: for fixed dpKa   *)
(* and logP a higher synthon score never gives a higher risk; for fixed    *)
(* dpKa and synthon score a logP > 3 never gives a lower risk than a       *)
(* logP <= 3; for fixed synthon score and logP a larger dpKa never gives a *)
(* higher risk, the bands being dpKa < 1, < 2, >= 2.                       *)
C23_RiskMonotone ==
  SriReturned =>
    LET a1 == call.args[1]
        a2 == call.args[2]
        r1 == call.ret[1]
        r2 == call.ret[2]
        Band(d) == IF d < 100 THEN 1 ELSE IF d < 200 THEN 2 ELSE 3
    IN  /\ {r1, r2} \subseteq {"Low", "Medium", "High"}
        /\ (a1[1] = a2[1] /\ a1[3] = a2[3] /\ a1[2] < a2[2]) => RiskRank(r2) <= RiskRank(r1)
        /\ (a1[1] = a2[1] /\ a1[2] = a2[2] /\ a1[3] <= 30 /\ a2[3] > 30) => RiskRank(r2) >= RiskRank(r1)
        /\ (a1[2] = a2[2] /\ a1[3] = a2[3] /\ a1[1] < a2[1]) => RiskRank(r2) <= RiskRank(r1)
        /\ (a1[2] = a2[2] /\ a1[3] = a2[3] /\ Band(a1[1]) = Band(a2[1])) => r1 = r2

C23_Witness ==
  /\ SriReturned
  /\ call.args[1] = <<99, 0, 30>>
  /\ call.args[2] = <<99, 1, 30>>
  /\ call.ret = <<"High", "Medium">>

(***************************************************************************)
(* etter_score called on a drawn pair of strings: the functional groups    *)
(* of the sidebar, the synthons of the catalog, and strings that occur     *)
(* nowhere in the table.                                                   *)
(***************************************************************************)
CatalogSynthons == { coformers_db[i].synthon : i \in 1 .. N_CANDIDATES }

UnlistedStrings == {"", "Nitro", "carboxylic acid", "Polymer"}

SynthonStrings == ApiSynthons \cup CatalogSynthons \cup UnlistedStrings

InitEtter ==
  /\ IdleRun
  /\ \E api_s \in SynthonStrings, cf_s \in SynthonStrings :
       call = [fn |-> "etter_score", args |-> <<api_s, cf_s>>, ret |-> << >>]

CallEtterScore ==
  /\ call.fn = "etter_score"
  /\ call.ret = << >>
  /\ call' = [call EXCEPT !.ret = <<etter_score(call.args[1], call.args[2])>>]
  /\ etter_table' = EtterAfterGet(etter_table, call.args[1], call.args[2])
  /\ UNCHANGED <<apiVars, catalog, runVars>>

NextEtter == CallEtterScore

SpecEtter == InitEtter /\ [][NextEtter]_vars

EtterReturned == call.fn = "etter_score" /\ call.ret # << >>

(* C24: etter_score returns a value in {0, 1, 2} for every pair of         *)
(* (API functional group, candidate synthon): the table value for a listed *)
(* pair, 0 for every pair not in the table, strings that occur nowhere in  *)
(* the table included; every call returns.                                 *)
C24_EtterScoreTotal ==
  /\ (call.fn = "etter_score" /\ call.ret = << >>) => ENABLED CallEtterScore
  /\ EtterReturned =>
       LET pair == <<call.args[1], call.args[2]>>
           v    == call.ret[1]
       IN  /\ v \in {0, 1, 2}
           /\ \A listed \in DOMAIN etter_scores : listed = pair => v = etter_scores[listed]
           /\ (\A listed \in DOMAIN etter_scores : listed # pair) => v = 0

C24_Witness ==
  /\ EtterReturned
  /\ call.args = <<"Nitro", "">>
  /\ call.ret = <<0>>

(***************************************************************************)
(* gastric_survival as the loop calls it: the API pKa and type of the      *)
(* sidebar and the pKa of catalog entry call.args[3].  On the half-unit    *)
(* pKa grid the float differences the source computes are the exact ones.  *)
(***************************************************************************)
InitGastric ==
  /\ IdleRun
  /\ \E pka \in ApiPkaValues, type \in ApiTypes, i \in 1 .. N_CANDIDATES :
       call = [fn |-> "gastric_survival", args |-> <<pka, type, i>>, ret |-> << >>]

CallGastricSurvival ==
  /\ call.fn = "gastric_survival"
  /\ call.ret = << >>
  /\ call' = [call EXCEPT !.ret = <<gastric_survival(call.args[1], call.args[2],
                                                     catalog[call.args[3]].pKa)>>]
  /\ UNCHANGED <<apiVars, refVars, runVars>>

NextGastric == CallGastricSurvival

SpecGastric == InitGastric /\ [][NextGastric]_vars

GastricReturned == call.fn = "gastric_survival" /\ call.ret # << >>

(* C25: gastric survival has two fixed cut-points per ionization type.     *)
(* Base API, d = API pKa - candidate pKa: Stable when d > 5, Marginal when *)
(* 2 < d <= 5, Risk when d <= 2.  Acid API, d = candidate pKa - API pKa:   *)
(* Stable when d > 4, Marginal when 1.5 < d <= 4, Risk when d <= 1.5.      *)
(* Exactly one of the three labels is returned for every input.            *)
C25_GastricCutPoints ==
  GastricReturned =>
    LET base  == call.args[2] = "Base"
        cf    == coformers_db[call.args[3]]
        d     == IF base THEN call.args[1] - cf.pKa ELSE cf.pKa - call.args[1]
        upper == IF base THEN 500 ELSE 400
        lower == IF base THEN 200 ELSE 150
        label == call.ret[1]
    IN  /\ label \in {"Stable", "Marginal", "Risk"}
        /\ (label = "Stable") <=> (d > upper)
        /\ (label = "Marginal") <=> (lower < d /\ d <= upper)
        /\ (label = "Risk") <=> (d <= lower)

C25_Witness ==
  /\ GastricReturned
  /\ call.args[1] = 700
  /\ call.args[2] = "Base"
  /\ coformers_db[call.args[3]].pKa = 200
  /\ call.ret = <<"Marginal">>

(***************************************************************************)
(* The Gordon-Taylor block of the loop body for catalog entry call.args[1] *)
(* with a drawn API Tg (hundredths of a degree C, or None) and drug        *)
(* loading (percent): the row's Tg_mix, stability class and Kauzmann       *)
(* temperature.                                                            *)
(***************************************************************************)
MaxTgApiK == 20

AsdTgValues == {None} \cup { Some(1000 * k - 2000) : k \in 0 .. MaxTgApiK }

AsdLoadingValues == {5, 30, 60}

InitAsd ==
  /\ IdleRun
  /\ \E i \in 1 .. N_CANDIDATES, tg \in AsdTgValues, loading \in AsdLoadingValues :
       call = [fn |-> "gordon_taylor_block", args |-> <<i, tg, loading>>, ret |-> << >>]

CallAsdBlock ==
  /\ call.fn = "gordon_taylor_block"
  /\ call.ret = << >>
  /\ LET row == ScreenRow(catalog[call.args[1]], api_pka, api_type, api_synthon, api_hsp,
                          api_logP, call.args[2], call.args[3])
     IN  call' = [call EXCEPT !.ret = <<row.gt_tg_mix, row.gt_stability, row.t_kauz>>]
  /\ UNCHANGED <<apiVars, refVars, runVars>>

NextAsd == CallAsdBlock

SpecAsd == InitAsd /\ [][NextAsd]_vars

AsdReturned == call.fn = "gordon_taylor_block" /\ call.ret # << >>

(* C26: for every polymer candidate with a known glass-transition          *)
(* temperature the Kauzmann temperature is Tg_mix - 50 and the stability   *)
(* class is Stable when Tg_mix - 25 >= 50, Borderline when                 *)
(* 30 <= Tg_mix - 25 < 50, Unstable when it is < 30; a missing Tg_mix      *)
(* gives Kauzmann None and class "N/A".  Temperatures in tenths of a       *)
(* degree C.                                                               *)
C26_KauzmannAndStability ==
  AsdReturned =>
    LET cf     == coformers_db[call.args[1]]
        tg_mix == call.ret[1]
        class  == call.ret[2]
        t_k    == call.ret[3]
    IN  /\ (IsPolymer(cf.type) /\ cf.tg_polymer # None /\ tg_mix # None) =>
             /\ t_k = Some(tg_mix[1] - 500)
             /\ (tg_mix[1] - 250 >= 500) => class = "Stable (Tg-Ts >= 50C)"
             /\ (300 <= tg_mix[1] - 250 /\ tg_mix[1] - 250 < 500) => class = "Borderline (30-50C)"
             /\ (tg_mix[1] - 250 < 300) => class = "Unstable (< 30C)"
        /\ (tg_mix = None) => (t_k = None /\ class = "N/A")
        /\ (IsPolymer(cf.type) /\ cf.tg_polymer # None /\ call.args[2] # None) => tg_mix # None

C26_Witness ==
  /\ AsdReturned
  /\ IsPolymer(coformers_db[call.args[1]].type)
  /\ call.ret[1] # None
  /\ call.ret[2] = "Borderline (30-50C)"
  /\ call.ret[3] = Some(call.ret[1][1] - 500)

(***************************************************************************)
(* The core computation on drawn sidebar inputs: logP in tenths, melting   *)
(* point in C, molecular weight a multiple of 100 (the product with        *)
(* s0_mol_l is then a whole number of ten-thousandths), pKa, type, dose.   *)
(***************************************************************************)
BcsLogPValues == {20, 35, 50, 60, 70}

BcsMpValues == {100, 180, 250}

BcsMwValues == {300, 500}

BcsPkaValues == {300, 500, 700, 1000}

BcsDoseValues == {50, 100, 200}

InitBcs ==
  /\ IdleRun
  /\ \E logP \in BcsLogPValues, mp \in BcsMpValues, mw \in BcsMwValues,
        pka \in BcsPkaValues, type \in ApiTypes, dose \in BcsDoseValues :
       call = [fn |-> "core_computation", args |-> <<logP, mp, mw, pka, type, dose>>,
               ret |-> << >>]

CallBiopharmCore ==
  /\ call.fn = "core_computation"
  /\ call.ret = << >>
  /\ call' = [call EXCEPT !.ret = <<BiopharmCore(call.args[1], call.args[2], call.args[3],
                                                 call.args[4], call.args[5], call.args[6])>>]
  /\ UNCHANGED <<apiVars, refVars, runVars>>

NextBcs == CallBiopharmCore

SpecBcs == InitBcs /\ [][NextBcs]_vars

BcsReturned == call.fn = "core_computation" /\ call.ret # << >>

(* C27: the BCS hint is "BCS I or III" exactly when the FaSSIF dose number *)
(* D0 = dose / (S_FaSSIF * 250) is <= 1, "BCS II or IV" (with              *)
(* is_sol_limited true) exactly when D0 > 1, and "Unknown" only when no    *)
(* intrinsic solubility can be estimated: an API whose estimated intrinsic *)
(* solubility is positive but very small is "BCS II or IV", not "Unknown". *)
(* The general solubility equation gives a positive estimate for every     *)
(* logP and melting point.                                                 *)
C27_BcsHint ==
  BcsReturned =>
    LET r  == call.ret[1]
        d0 == r.d0_fassif
    IN  /\ (r.bcs_hint = "BCS I or III") <=> (d0 # None /\ d0[1] <= 100)
        /\ (r.bcs_hint = "BCS II or IV") <=> (d0 # None /\ d0[1] > 100)
        /\ (r.bcs_hint = "BCS II or IV") <=> r.is_sol_limited
        /\ r.bcs_hint # "Unknown"

(***************************************************************************)
(* The loop body run on catalog entry call.args[1] for two API functional  *)
(* groups, every other input the same, and once more with the entry's      *)
(* ich_flag set and cleared.  The functional group enters the row only     *)
(* through etter_score.                                                    *)
(***************************************************************************)
InitPipeline ==
  /\ IdleRun
  /\ \E i \in 1 .. N_CANDIDATES, pka \in ApiPkaValues, type \in ApiTypes,
        logP \in ApiLogPValues, s1 \in ApiSynthons, s2 \in ApiSynthons :
       call = [fn |-> "loop_body", args |-> <<i, pka, type, logP, s1, s2>>, ret |-> << >>]

CallLoopBody ==
  /\ call.fn = "loop_body"
  /\ call.ret = << >>
  /\ LET cf        == catalog[call.args[1]]
         Row(c, s) == ScreenRow(c, call.args[2], call.args[3], s, api_hsp, call.args[4],
                                api_tg, api_loading)
         row1      == Row(cf, call.args[5])
         row2      == Row(cf, call.args[6])
     IN  call' = [call EXCEPT !.ret =
                    <<[e1 |-> row1.e_score, type1 |-> row1.inter_type, lead1 |-> row1.lead_score,
                       e2 |-> row2.e_score, type2 |-> row2.inter_type, lead2 |-> row2.lead_score,
                       flagged   |-> Row([cf EXCEPT !.ich_flag = TRUE], call.args[5]).lead_score,
                       unflagged |-> Row([cf EXCEPT !.ich_flag = FALSE], call.args[5]).lead_score]>>]
  /\ UNCHANGED <<apiVars, refVars, runVars>>

NextPipeline == CallLoopBody

SpecPipeline == InitPipeline /\ [][NextPipeline]_vars

PipelineReturned == call.fn = "loop_body" /\ call.ret # << >>

(* C28: through the whole loop body (interaction type, Supersaturation     *)
(* Risk Index, composite score), all other API and candidate attributes    *)
(* fixed, a higher synthon score (0, 1, 2) never gives a lower Lead Score, *)
(* and setting the genotoxicity flag never raises the Lead Score.          *)
C28_PipelineMonotone ==
  PipelineReturned =>
    LET r == call.ret[1]
    IN  /\ (r.e1 <= r.e2) => (r.lead1 <= r.lead2)
        /\ (r.e1 = r.e2) => (r.lead1 = r.lead2)
        /\ r.flagged <= r.unflagged

C28_Witness ==
  /\ PipelineReturned
  /\ call.ret[1].e1 = 0
  /\ call.ret[1].e2 = 2
  /\ call.ret[1].type1 = "Unlikely"
  /\ call.ret[1].type2 = "Cocrystal"
  /\ call.ret[1].lead1 < call.ret[1].lead2
  /\ call.ret[1].flagged < call.ret[1].unflagged

(***************************************************************************)
(* gordon_taylor_tg called twice with the same API Tg (hundredths of a     *)
(* degree C, above absolute zero) and polymer Tg (K, from the catalog) and *)
(* two drug loadings (percent).                                            *)
(***************************************************************************)
GtTgApiValues == {-5000, 2500, 10000, 10004, 16984, 18000}

GtTgPolymerValues == { coformers_db[i].tg_polymer[1] : i \in { j \in 1 .. N_CANDIDATES : coformers_db[j].tg_polymer # None } }

GtLoadingValues == {5, 20, 30, 60, 100, 120}

InitGordonTaylor ==
  /\ IdleRun
  /\ \E tg \in GtTgApiValues, pol \in GtTgPolymerValues, w1 \in GtLoadingValues, w2 \in GtLoadingValues :
       call = [fn |-> "gordon_taylor_tg twice", args |-> <<tg, pol, w1, w2>>, ret |-> << >>]

CallGordonTaylorAgain ==
  /\ call.fn = "gordon_taylor_tg twice"
  /\ Len(call.ret) < 2
  /\ call' = [call EXCEPT !.ret = Append(@, gordon_taylor_tg(Some(call.args[1]), Some(call.args[2]),
                                                             call.args[3 + Len(call.ret)]))]
  /\ UNCHANGED <<apiVars, refVars, runVars>>

NextGordonTaylor == CallGordonTaylorAgain

SpecGordonTaylor == InitGordonTaylor /\ [][NextGordonTaylor]_vars

GordonTaylorReturned == call.fn = "gordon_taylor_tg twice" /\ Len(call.ret) = 2

(* the polymer Tg in hundredths of a degree C *)
PolymerTgC(tg_pol_k) == 100 * tg_pol_k - 27315

(* C29 as stated: for 0 < w_api < 1 and positive absolute temperatures the *)
(* returned Tg_mix lies between the API Tg and the polymer Tg (inclusive,  *)
(* in degrees C) and moves monotonically toward the API Tg as w_api        *)
(* increases; for w_api >= 1 the API Tg is returned.                       *)
C29_Original ==
  GordonTaylorReturned =>
    LET api == call.args[1]
        pol == PolymerTgC(call.args[2])
        w1  == call.args[3]
        w2  == call.args[4]
        r1  == 10 * call.ret[1][1]
        r2  == 10 * call.ret[2][1]
    IN  /\ (w1 < 100) => (Min(api, pol) <= r1 /\ r1 <= IF api > pol THEN api ELSE pol)
        /\ (w1 < w2 /\ w2 < 100) => (IF api <= pol THEN r2 <= r1 ELSE r2 >= r1)
        /\ (w1 >= 100) => (r1 = api)

(* C29: for 0 < w_api < 1 and positive absolute temperatures the returned  *)
(* Tg_mix lies between the API Tg and the polymer Tg to within the 0.05 C  *)
(* of its rounding to one decimal, and moves monotonically toward the API  *)
(* Tg as w_api increases; for w_api >= 1 the API Tg rounded to one decimal *)
(* is returned.                                                            *)
C29_TgMixBetween ==
  GordonTaylorReturned =>
    LET api == call.args[1]
        pol == PolymerTgC(call.args[2])
        w1  == call.args[3]
        w2  == call.args[4]
        r1  == 10 * call.ret[1][1]
        r2  == 10 * call.ret[2][1]
    IN  /\ Len(call.ret[1]) = 1 /\ Len(call.ret[2]) = 1
        /\ (w1 < 100) => (Min(api, pol) - 5 <= r1 /\ r1 <= (IF api > pol THEN api ELSE pol) + 5)
        /\ (w1 < w2 /\ w2 < 100) => (IF api <= pol THEN r2 <= r1 ELSE r2 >= r1)
        /\ (w1 >= 100) => (api - 5 <= r1 /\ r1 <= api + 5)

C29_Witness ==
  /\ GordonTaylorReturned
  /\ call.args = <<10000, 443, 20, 60>>
  /\ call.ret[2][1] < call.ret[1][1]
  /\ 10 * call.ret[2][1] > 10000
  /\ 10 * call.ret[1][1] < PolymerTgC(443)

ChartReturned == call.fn = "chart_score_components" /\ call.ret # << >>

(* C30: for every row of the chart the six components recomputed by        *)
(* chart_score_components (pKa, synthon, miscibility, hygroscopicity, ICH, *)
(* supersaturation) equal the six components composite_lead_score used for *)
(* that row, so their sum rounds to the row's Lead Score; the              *)
(* hygroscopicity component agrees for every risk tier and every API pKa   *)
(* and type.                                                               *)
C30_ChartMatchesScore ==
  ChartReturned =>
    \A bar \in call.ret[1] :
      \A r \in Rows(df_full) :
        r.Partner = bar.Partner =>
          LET cf   == Candidate(r.Partner)
              used == score_components(r.delta_pka, r.e_score, r.ra_sq, r.chi, cf.hygro_risk,
                                       cf.ich_flag, api_pka, api_type, cf.type, r.sri)
              sum  == bar.pka_s + bar.syn_s + bar.misc_s + bar.hyg_s + bar.ich_s + bar.sri_s
          IN  /\ bar.pka_s = used.pka_s
              /\ bar.syn_s = used.syn_s
              /\ bar.misc_s = used.misc_s
              /\ bar.hyg_s = used.hyg_s
              /\ bar.ich_s = used.ich_s
              /\ bar.sri_s = used.sri_s
              /\ RoundHalfEven(Min(sum, 100000)) = r.lead_score

====
